---- MODULE Spec2Model ----
(***************************************************************************)
(* cauth: OAuth credential profiles for Claude (src/cauth/src/main.rs).    *)
(*                                                                         *)
(* The model covers the commands save, switch, refresh and check-usage     *)
(* (with and without --account) run by one or two concurrent processes     *)
(* over a shared home directory: the stored credential file of every       *)
(* account, the active credential file, the keychain entry, accounts.json  *)
(* and the flock()ed lock files.  Every process step is one blocking I/O   *)
(* phase of the command, so the interleavings of the model are those the   *)
(* operating system can produce between processes.                         *)
(***************************************************************************)
EXTENDS Integers, Sequences, FiniteSets, TLC

(***************************************************************************)
(* Bounds of the model.                                                    *)
(***************************************************************************)
\* tokens 1..InitTok exist before any command runs; the OAuth server issues
\* InitTok+1..MaxTok
MaxTok == 6
\* injected I/O failures and abnormal OAuth answers in a sequential run
MaxFaults == 2
\* the cap of the abstract updated_at stamp
MaxStamp == 2

InitTok == 2
Procs == {1, 2}
Tokens == 1..MaxTok
NoToken == 0
None == "none"

(***************************************************************************)
(* Credential blobs.  A blob is the bytes of a credential JSON object;     *)
(* the model keeps the fields the program reads.  form is the byte layout: *)
(* "pretty" is what serde_json::to_vec_pretty emits, "raw" any other       *)
(* layout without surrounding whitespace, "rawnl" the raw layout followed  *)
(* by a newline.  Metadata keys sit at the root of the object.  json is    *)
(* what serde_json::from_slice makes of the bytes: an "object", another     *)
(* JSON value ("other") or a parse error ("invalid"); oauth is the value of *)
(* the key claudeAiOauth of an object: an "object", "absent", or a value    *)
(* that is not an object ("scalar").  The tokens are keys of claudeAiOauth. *)
(***************************************************************************)
\* claudeAiOauth.expiresAt and claudeAiOauth.scopes of the credentials the
\* home directory starts with, and the scope a token response grants
InitExpiry == 1
InitScope == 1
ResponseScope == 2
MkCred(at, rt, email, isTeam, sub, tier, form) ==
    [at |-> at, rt |-> rt, email |-> email, isTeam |-> isTeam,
     sub |-> sub, tier |-> tier, form |-> form, json |-> "object",
     oauth |-> "object",
     expiresAt |-> IF form = "absent" THEN 0 ELSE InitExpiry,
     scopes |-> IF form = "absent" THEN 0 ELSE InitScope]

\* bytes that are not JSON, bytes of a JSON value that is not an object, and
\* an object whose claudeAiOauth is absent or not an object: none has tokens
NotJson(form) ==
    [MkCred(0, 0, 0, "none", "none", "none", form) EXCEPT
       !.json = "invalid", !.oauth = "absent", !.expiresAt = 0, !.scopes = 0]
NotObject(form) ==
    [MkCred(0, 0, 0, "none", "none", "none", form) EXCEPT
       !.json = "other", !.oauth = "absent", !.expiresAt = 0, !.scopes = 0]
WithoutOauth(email, oauth, form) ==
    [MkCred(0, 0, email, "none", "none", "none", form) EXCEPT
       !.oauth = oauth, !.expiresAt = 0, !.scopes = 0]

\* str::trim on the bytes read from the keychain binary's stdout
TrimBytes(c) == IF c.form = "rawnl" THEN [c EXCEPT !.form = "raw"] ELSE c

\* serde_json::to_vec_pretty of the parsed value
ToVecPretty(c) == [c EXCEPT !.form = "pretty"]

\* parse_claude_credentials(data).refresh_token / .access_token
RefreshTokenOf(c) == c.rt
AccessTokenOf(c) == c.at

\* short_hash_hex: the first 16 hex digits of SHA-256, injective on the
\* tokens of the model and not the identity
short_hash_hex(t) == (t * 5) % 11

\* token_fingerprint(Some(token)); 0 stands for None
token_fingerprint(t) == IF t = NoToken THEN 0 ELSE short_hash_hex(t)

\* refresh_lock_id_from_credentials_data; 0 stands for None
refresh_lock_id_from_credentials_data(c) ==
    IF c.rt = NoToken THEN 0 ELSE short_hash_hex(c.rt)

\* extract_claude_email: 0 stands for None
extract_claude_email(c) == c.email

\* resolve_plan_from_string on the lowercased tier / subscription string
resolve_plan_from_string(raw) ==
    CASE raw = "max20" -> "Max 20x"
      [] raw = "max5"  -> "Max 5x"
      [] raw = "pro"   -> "Pro"
      [] raw = "max"   -> "Max"
      [] OTHER         -> None

\* resolve_claude_plan: rateLimitTier first, then subscriptionType
resolve_claude_plan(c) ==
    IF resolve_plan_from_string(c.tier) # None
    THEN resolve_plan_from_string(c.tier)
    ELSE resolve_plan_from_string(c.sub)

\* resolve_claude_is_team: explicit isTeam, else a subscription type that
\* contains "team"; "none" stands for None
resolve_claude_is_team(c) ==
    IF c.isTeam # None THEN c.isTeam
    ELSE IF c.sub = "team" THEN "true" ELSE None

(***************************************************************************)
(* Account ids: <<kind, n, team>>.  "email" ids are acct_claude[_team]_    *)
(* <slug>, "hash" ids are acct_claude_<16 hex of SHA-256 of                *)
(* "claude:refresh:<token>">, "legacy" ids are any other id found in an    *)
(* accounts.json written by earlier versions.                              *)
(***************************************************************************)
\* resolve_claude_account_id
resolve_claude_account_id(c) ==
    IF extract_claude_email(c) # 0
    THEN <<"email", extract_claude_email(c), resolve_claude_is_team(c) = "true">>
    ELSE <<"hash", c.rt, FALSE>>

\* the byte order of the id strings, as a rank
IdRank(id) ==
    (CASE id[1] = "email" -> 0 [] id[1] = "hash" -> 100 [] OTHER -> 200)
    + 2 * id[2] + (IF id[3] THEN 1 ELSE 0)

NoId == <<"none", 0, FALSE>>
MaxEmail == 2
AccountIds ==
    {<<"email", e, t>> : e \in 1..MaxEmail, t \in BOOLEAN}
    \cup {<<"hash", t, FALSE>> : t \in 0..MaxTok}
    \cup {<<"legacy", k, FALSE>> : k \in 1..3}

(***************************************************************************)
(* The text of emails and of email account ids.  A text is a sequence of   *)
(* characters; the fixed beginning "acct_claude_" of an id is one element. *)
(* The email of number e of a credential is EmailText(e).                  *)
(***************************************************************************)
EmailText(e) ==
    CASE e = 1 -> <<"A", "1", "@", "b", ".", "c">>
      [] e = 2 -> <<"t", "e", "a", "m", "@", "b", ".", "c">>
      [] OTHER -> <<"d", "@", "b", ".", "c">>

\* char::is_ascii_alphanumeric on the characters of the texts
Alphanumeric == {"a", "b", "c", "d", "e", "m", "t", "1", "A"}
\* str::to_lowercase
to_lowercase(text) ==
    [i \in 1..Len(text) |-> IF text[i] = "A" THEN "a" ELSE text[i]]

\* the loop of email_slug: a run of other characters becomes one underscore
RECURSIVE SlugLoop(_, _)
SlugLoop(text, last_underscore) ==
    IF text = <<>> THEN <<>>
    ELSE IF Head(text) \in Alphanumeric
    THEN <<Head(text)>> \o SlugLoop(Tail(text), FALSE)
    ELSE IF ~last_underscore THEN <<"_">> \o SlugLoop(Tail(text), TRUE)
    ELSE SlugLoop(Tail(text), TRUE)

\* str::trim_matches('_')
RECURSIVE trim_matches(_)
trim_matches(text) ==
    IF text = <<>> THEN text
    ELSE IF Head(text) = "_" THEN trim_matches(Tail(text))
    ELSE IF text[Len(text)] = "_" THEN trim_matches(SubSeq(text, 1, Len(text) - 1))
    ELSE text

\* email_slug: the empty text is None
email_slug(email) == trim_matches(SlugLoop(to_lowercase(email), FALSE))

\* the id that resolve_claude_account_id formats for an email
AcctClaude == <<"acct_claude_">>
AcctClaudeTeam == <<"acct_claude_", "t", "e", "a", "m", "_">>
email_account_id(email, is_team) ==
    (IF is_team THEN AcctClaudeTeam ELSE AcctClaude) \o email_slug(email)

\* str::strip_prefix and str::split_once('_'); NoText is None
NoText == <<"(none)">>
strip_prefix(text, prefix) ==
    IF Len(text) >= Len(prefix) /\ SubSeq(text, 1, Len(prefix)) = prefix
    THEN SubSeq(text, Len(prefix) + 1, Len(text))
    ELSE NoText
FirstUnderscore(text) ==
    IF \E i \in 1..Len(text) : text[i] = "_"
    THEN CHOOSE i \in 1..Len(text) :
           /\ text[i] = "_"
           /\ \A j \in 1..(i - 1) : text[j] # "_"
    ELSE 0

\* email_from_account_id
email_from_account_id(account_id) ==
    LET team == strip_prefix(account_id, AcctClaudeTeam)
        prefix == IF team # NoText THEN team ELSE strip_prefix(account_id, AcctClaude)
        at == IF prefix = NoText THEN 0 ELSE FirstUnderscore(prefix)
        local_part == SubSeq(prefix, 1, at - 1)
        domain_slug == SubSeq(prefix, at + 1, Len(prefix))
    IN IF prefix = NoText \/ at = 0 THEN NoText
       ELSE IF local_part = <<>> \/ domain_slug = <<>> THEN NoText
       ELSE local_part \o <<"@">>
              \o [i \in 1..Len(domain_slug) |->
                    IF domain_slug[i] = "_" THEN "." ELSE domain_slug[i]]

\* a path that holds no file
NoFile == MkCred(0, 0, 0, None, None, None, "absent")
Exists(f) == f.form # "absent"

(***************************************************************************)
(* The snapshot accounts.json: accounts and profiles in insertion order.   *)
(* root_path of an account is <accounts dir>/<id>, so the stored           *)
(* credential file of an account is addressed by its id.  updated_at is a  *)
(* stamp that every utc_now_iso() assignment advances.                     *)
(***************************************************************************)
UsageAccount(id, service, label, updated_at) ==
    [id |-> id, service |-> service, label |-> label, updated_at |-> updated_at]
UsageProfile(name, claude, codex, gemini) ==
    [name |-> name, claude_account_id |-> claude,
     codex_account_id |-> codex, gemini_account_id |-> gemini]
AccountsSnapshot(accounts, profiles) == [accounts |-> accounts, profiles |-> profiles]

utc_now_iso(old) == IF old < MaxStamp THEN old + 1 ELSE old

Indices(seq) == 1..Len(seq)
\* iter().position(pred): the least index, 0 when there is none
FirstIndex(S) == IF S = {} THEN 0 ELSE CHOOSE i \in S : \A j \in S : i <= j

AccountIndex(snapshot, id) ==
    FirstIndex({i \in Indices(snapshot.accounts) : snapshot.accounts[i].id = id})
ClaudeAccountIndex(snapshot, id) ==
    FirstIndex({i \in Indices(snapshot.accounts) :
                  /\ snapshot.accounts[i].id = id
                  /\ snapshot.accounts[i].service = "claude"})
ProfileIndex(snapshot, name) ==
    FirstIndex({i \in Indices(snapshot.profiles) : snapshot.profiles[i].name = name})

upsert_account_appends(snapshot, account) ==
    [snapshot EXCEPT !.accounts = Append(@, account)]

\* upsert_account
upsert_account(snapshot, account) ==
    LET index == AccountIndex(snapshot, account.id) IN
    IF index # 0
    THEN [snapshot EXCEPT !.accounts[index] = account]
    ELSE [snapshot EXCEPT !.accounts = Append(@, account)]

upsert_profile_appends(snapshot, profile) ==
    [snapshot EXCEPT !.profiles = Append(@, profile)]

\* upsert_profile
upsert_profile(snapshot, profile) ==
    LET index == ProfileIndex(snapshot, profile.name) IN
    IF index # 0
    THEN [snapshot EXCEPT !.profiles[index] = profile]
    ELSE [snapshot EXCEPT !.profiles = Append(@, profile)]

\* what a write that stops part-way leaves in the file it writes to
Truncated(data) ==
    IF "form" \in DOMAIN data
    THEN [data EXCEPT !.form = "partial", !.json = "invalid"]
    ELSE [data EXCEPT !.profiles = <<>>]

\* the write that opens the target itself and writes the bytes into it
write_file_in_place(failed, old, data) ==
    IF failed THEN Truncated(data) ELSE data

\* write_file_atomic: the contents of the target after the call.  The bytes
\* go to a NamedTempFile in the directory of the target; create_dir_all,
\* the creation of the temporary file, write_all and persist can each fail,
\* and only persist, a rename, touches the target.  A failed call drops the
\* temporary file.
write_file_atomic(failed, old, data) ==
    IF failed THEN old ELSE data

\* profiles.sort_by(name): insertion sort, stable
RECURSIVE InsertByName(_, _)
InsertByName(sorted, profile) ==
    IF sorted = <<>> THEN <<profile>>
    ELSE IF profile.name < Head(sorted).name THEN <<profile>> \o sorted
    ELSE <<Head(sorted)>> \o InsertByName(Tail(sorted), profile)
RECURSIVE SortByName(_)
SortByName(profiles) ==
    IF profiles = <<>> THEN <<>>
    ELSE InsertByName(SortByName(SubSeq(profiles, 1, Len(profiles) - 1)),
                      profiles[Len(profiles)])

\* refresh_all keeps the snapshot's profiles in the order it loaded them
sorted_profiles_keeps_order(snapshot) == snapshot.profiles
\* refresh_all: let mut profiles = snapshot.profiles.clone(); sort by name
sorted_profiles(snapshot) == SortByName(snapshot.profiles)

(***************************************************************************)
(* Snapshot reconciliation.  st is the content of the accounts directory:  *)
(* account id -> stored credential file (NoFile when absent).              *)
(***************************************************************************)
\* the score that does not compare the team flags
MetadataScoreIgnoresTeam(target, existing) ==
    LET target_email == extract_claude_email(target)
        target_plan  == resolve_claude_plan(target)
        emailPart == IF target_email = 0 THEN 0
                     ELSE IF extract_claude_email(existing) = target_email THEN 100 ELSE -1
        planPart  == IF target_plan # None /\ resolve_claude_plan(existing) = target_plan
                     THEN 10 ELSE 0
    IN IF emailPart < 0 THEN -1 ELSE emailPart + planPart

\* the score of one existing credential against the target; -1 = skipped
MetadataScore(target, existing) ==
    LET target_email == extract_claude_email(target)
        target_team  == resolve_claude_is_team(target)
        target_plan  == resolve_claude_plan(target)
        existing_team == resolve_claude_is_team(existing)
        emailPart == IF target_email = 0 THEN 0
                     ELSE IF extract_claude_email(existing) = target_email THEN 100 ELSE -1
        teamPart  == IF target_team = None \/ existing_team = None THEN 0
                     ELSE IF existing_team = target_team THEN 30 ELSE -1
        planPart  == IF target_plan # None /\ resolve_claude_plan(existing) = target_plan
                     THEN 10 ELSE 0
    IN IF emailPart < 0 \/ teamPart < 0 THEN -1 ELSE emailPart + teamPart + planPart

\* resolve_snapshot_account_id_by_metadata; NoId stands for None
resolve_snapshot_account_id_by_metadata(snapshot, data, st) ==
    IF /\ extract_claude_email(data) = 0
       /\ resolve_claude_is_team(data) = None
       /\ resolve_claude_plan(data) = None
    THEN NoId
    ELSE
      LET scored == {i \in Indices(snapshot.accounts) :
                       /\ snapshot.accounts[i].service = "claude"
                       /\ Exists(st[snapshot.accounts[i].id])
                       /\ MetadataScore(data, st[snapshot.accounts[i].id]) > 0}
          score(i) == MetadataScore(data, st[snapshot.accounts[i].id])
          best == {i \in scored : \A j \in scored : score(j) <= score(i)}
      IN IF scored = {} THEN NoId
         ELSE IF Cardinality(best) > 1 THEN NoId
         ELSE snapshot.accounts[CHOOSE i \in best : TRUE].id

\* the reconciliation without the comparison of the fingerprints
resolve_snapshot_account_id_skips_fingerprint(snapshot, data, st) ==
    LET direct_account_id == resolve_claude_account_id(data)
        by_metadata == resolve_snapshot_account_id_by_metadata(snapshot, data, st)
    IN IF ClaudeAccountIndex(snapshot, direct_account_id) # 0 THEN direct_account_id
       ELSE IF refresh_lock_id_from_credentials_data(data) = 0 THEN direct_account_id
       ELSE IF by_metadata # NoId THEN by_metadata
       ELSE direct_account_id

\* resolve_snapshot_account_id_for_credentials
resolve_snapshot_account_id_for_credentials(snapshot, data, st) ==
    LET direct_account_id == resolve_claude_account_id(data)
        active_lock_id == refresh_lock_id_from_credentials_data(data)
        matching == {i \in Indices(snapshot.accounts) :
                       /\ snapshot.accounts[i].service = "claude"
                       /\ Exists(st[snapshot.accounts[i].id])
                       /\ refresh_lock_id_from_credentials_data(st[snapshot.accounts[i].id])
                            = active_lock_id}
        by_metadata == resolve_snapshot_account_id_by_metadata(snapshot, data, st)
    IN IF ClaudeAccountIndex(snapshot, direct_account_id) # 0 THEN direct_account_id
       ELSE IF active_lock_id = 0 THEN direct_account_id
       ELSE IF matching # {} THEN snapshot.accounts[FirstIndex(matching)].id
       ELSE IF by_metadata # NoId THEN by_metadata
       ELSE direct_account_id

(***************************************************************************)
(* load_current: keychain first, metadata merged from a fallback source.   *)
(***************************************************************************)
\* merge_claude_metadata_value: a metadata key is copied only when the
\* primary has no value for it; the key claudeAiOauth is inserted as an
\* object whatever it was
merge_claude_metadata_value(primary, fallback) ==
    [primary EXCEPT
       !.email  = IF @ = 0 THEN fallback.email ELSE @,
       !.isTeam = IF @ = None THEN fallback.isTeam ELSE @,
       !.sub    = IF @ = None THEN fallback.sub ELSE @,
       !.tier   = IF @ = None THEN fallback.tier ELSE @,
       !.oauth  = "object"]

\* load_stored_claude_root_by_refresh: the stored files that read_dir can
\* yield first among those with the refresh token
load_stored_claude_root_by_refresh(refresh_token, st) ==
    {st[id] : id \in {i \in AccountIds : Exists(st[i]) /\ st[i].rt = refresh_token}}

\* the fallback roots merge_current_claude_credentials can choose;
\* NoFile stands for None
FallbackRoots(keychain_data, file_data, st) ==
    LET keychain_refresh == RefreshTokenOf(keychain_data)
        by_refresh == load_stored_claude_root_by_refresh(keychain_refresh, st)
        parsed == IF file_data.json = "invalid" THEN NoFile ELSE file_data
    IN IF Exists(file_data)
       THEN IF Exists(parsed) /\ keychain_refresh # NoToken
            THEN IF RefreshTokenOf(file_data) = keychain_refresh THEN {parsed}
                 ELSE IF by_refresh # {} THEN by_refresh ELSE {parsed}
            ELSE {parsed}
       ELSE IF keychain_refresh # NoToken /\ by_refresh # {} THEN by_refresh
       ELSE {NoFile}

\* merge_current_claude_credentials: the set of results; {NoFile} is None,
\* the result for keychain bytes that are not JSON
merge_current_claude_credentials(keychain_data, file_data, st) ==
    IF keychain_data.json = "invalid" THEN {NoFile}
    ELSE IF keychain_data.json # "object" THEN {keychain_data}
    ELSE {IF Exists(fb) /\ fb.json = "object"
          THEN ToVecPretty(merge_claude_metadata_value(keychain_data, fb))
          ELSE keychain_data : fb \in FallbackRoots(keychain_data, file_data, st)}

\* read_keychain: the trimmed stdout of the keychain binary; NoFile is None
read_keychain(kc) == IF Exists(kc) THEN TrimBytes(kc) ELSE NoFile

\* load_current_credentials: the set of results; {NoFile} is None
load_current_credentials(file_data, kc, st) ==
    IF Exists(read_keychain(kc))
    THEN merge_current_claude_credentials(read_keychain(kc), file_data, st)
    ELSE {file_data}

(***************************************************************************)
(* Lock keys.  A key is the string that names a lock file; KeyRank is the  *)
(* byte order of the key strings under an absolute home directory:         *)
(* "<home>/.agent-island/accounts/<id>/..." < "<home>/.claude/..." <       *)
(* "account:<id>" < "claude-refresh-token:<fp>".                           *)
(***************************************************************************)
StoredPath(id) == [kind |-> "stored", id |-> id, fp |-> 0]
ActivePath == [kind |-> "active", id |-> NoId, fp |-> 0]
AccountKey(id) == [kind |-> "account", id |-> id, fp |-> 0]
TokenKey(fp) == [kind |-> "token", id |-> NoId, fp |-> fp]
NoPath == [kind |-> "nopath", id |-> NoId, fp |-> 0]

KeyRank(k) ==
    CASE k.kind = "stored"  -> IdRank(k.id)
      [] k.kind = "active"  -> 1000
      [] k.kind = "account" -> 2000 + IdRank(k.id)
      [] OTHER              -> 4000 + k.fp

\* keys.sort(); keys.dedup(): the keys of a set in ascending order
RECURSIVE SortKeys(_)
SortKeys(S) ==
    IF S = {} THEN <<>>
    ELSE LET least == CHOOSE k \in S : \A other \in S : KeyRank(k) <= KeyRank(other)
         IN <<least>> \o SortKeys(S \ {least})

\* the keys in the reverse order
RECURSIVE Reverse(_)
Reverse(seq) == IF seq = <<>> THEN <<>> ELSE Reverse(Tail(seq)) \o <<Head(seq)>>
refresh_lock_keys_unsorted(data, account_id, credential_path) ==
    Reverse(SortKeys({IF credential_path # NoPath THEN credential_path
                      ELSE AccountKey(account_id)}
             \cup (IF refresh_lock_id_from_credentials_data(data) # 0
                   THEN {TokenKey(refresh_lock_id_from_credentials_data(data))}
                   ELSE {})))

\* refresh_lock_keys
refresh_lock_keys(data, account_id, credential_path) ==
    SortKeys({IF credential_path # NoPath THEN credential_path ELSE AccountKey(account_id)}
             \cup (IF refresh_lock_id_from_credentials_data(data) # 0
                   THEN {TokenKey(refresh_lock_id_from_credentials_data(data))}
                   ELSE {}))

\* resolve_refresh_lock_id: the fingerprint, or the account id as fallback
resolve_refresh_lock_id(data, fallback) ==
    IF RefreshTokenOf(data) = NoToken THEN <<"acct", fallback>>
    ELSE <<"fp", short_hash_hex(RefreshTokenOf(data))>>

\* classify_refresh_failure on the message of the error
classify_refresh_failure(message) ==
    IF message = "invalid_grant" THEN "needs_login" ELSE "error"

Success(data) == [kind |-> "success", data |-> data]
Failed(kind) == [kind |-> kind, data |-> NoFile]

(***************************************************************************)
(* State.                                                                  *)
(***************************************************************************)
VARIABLES
    stored,        \* account id -> accounts/<id>/.claude/.credentials.json
    activeFile,    \* <home>/.claude/.credentials.json
    keychain,      \* the keychain entry "Claude Code-credentials"
    accountsJson,  \* <home>/.agent-island/accounts.json
    nextTok,       \* the next token the OAuth server issues
    faultsLeft,    \* I/O failures and abnormal OAuth answers still to come
    proc           \* per process: the command and its local variables

vars == <<stored, activeFile, keychain, accountsJson, nextTok, faultsLeft, proc>>

Range(seq) == {seq[i] : i \in Indices(seq)}

\* an exclusive flock is held through an open file of some process
Locked(k) == \E q \in Procs : k \in Range(proc[q].files)
Holds(p, k) == k \in Range(proc[p].files)

\* the outcomes of an operation that can fail: TRUE is the failure
FaultChoices == IF faultsLeft > 0 THEN {FALSE, TRUE} ELSE {FALSE}
Cost(f) == IF f THEN 1 ELSE 0

EmptyMap == [x \in {} |-> Failed("error")]
EmptyTokens == [x \in {} |-> 0]
Insert(map, key, value) == [k \in DOMAIN map \cup {key} |-> IF k = key THEN value ELSE map[k]]

\* what refresh returns: Ok or the CliError with the counts and names of its
\* message, and the number of per-profile lines printed before the return
Returned(kind, n, k, names, exit_code, lines) ==
    [kind |-> kind, n |-> n, k |-> k, names |-> names, exit_code |-> exit_code,
     lines |-> lines]
NoSummary == Returned("none", 0, 0, <<>>, 0, 0)
\* the error of a failed read or write, returned by `?`
IoError == Returned("io", 0, 0, <<>>, 1, 0)

\* the local variables of a process before its command starts
NewProc(cmd, name, account) ==
    [cmd |-> cmd, name |-> name, account_arg |-> account,
     pc |-> CASE cmd = "refresh" -> "r_load"
              [] cmd = "switch"  -> "s_load"
              [] cmd = "save"    -> "v_load"
              [] cmd = "check"   -> "k_load"
              [] cmd = "status"  -> "t_report"
              [] OTHER           -> "done",
     result |-> IF cmd = "idle" THEN "idle" ELSE "running",
     snapshot |-> AccountsSnapshot(<<>>, <<>>), profiles |-> <<>>, idx |-> 0,
     active_data |-> NoFile, active_account_id |-> NoId,
     account_id |-> NoId, current_data |-> NoFile, lock_id |-> <<"acct", NoId>>,
     lock_keys |-> <<>>, files |-> <<>>, sent |-> NoToken,
     refreshed_data |-> NoFile, op_result |-> "none", reuse |-> FALSE,
     refreshed_by_account_id |-> EmptyMap, refreshed_by_lock_id |-> EmptyMap,
     touched_account_ids |-> {},
     sync_data |-> NoFile, previous_keychain |-> NoFile, sync_result |-> "none",
     summary |-> NoSummary, printed |-> <<>>,
     \* history, read by the properties only
     kc_before |-> NoFile, kc_read_failed |-> FALSE, restore_failed |-> FALSE,
     calls |-> <<>>, walked |-> FALSE, wrote |-> {},
     how |-> EmptyMap, lock_of |-> EmptyMap, at_walk |-> EmptyMap,
     kc_writes |-> 0, exchanged |-> EmptyMap, kc_loaded |-> NoFile,
     prior_snapshot |-> AccountsSnapshot(<<>>, <<>>), kc_written |-> NoFile,
     attempts |-> <<>>, response |-> [kind |-> "none", carried |-> {}],
     consumed |-> {}, write_failed |-> {}, sent_for |-> EmptyTokens]

Set(p, rec) == proc' = [proc EXCEPT ![p] = rec]

(***************************************************************************)
(* refresh: CAuthApp::refresh_all_profiles                                 *)
(***************************************************************************)
\* the command ends: every temporary is dropped
Finish(me, result) ==
    [me EXCEPT !.pc = "done", !.result = result, !.files = <<>>, !.sent = NoToken]

\* load_snapshot, sort the profiles, "no profiles" when there is none
RefreshLoadSnapshot(p) ==
    /\ proc[p].pc = "r_load"
    /\ \E f \in FaultChoices :
         /\ faultsLeft' = faultsLeft - Cost(f)
         /\ IF f THEN Set(p, Finish([proc[p] EXCEPT !.summary = IoError], "error"))
            ELSE LET profiles == sorted_profiles(accountsJson) IN
                 IF profiles = <<>>
                 THEN Set(p, Finish([proc[p] EXCEPT
                                       !.summary = Returned("ok", 0, 0, <<>>, 0, 0)],
                                    "ok"))
                 ELSE Set(p, [proc[p] EXCEPT !.snapshot = accountsJson,
                                             !.prior_snapshot = accountsJson,
                                             !.profiles = profiles,
                                             !.pc = "r_current"])
    /\ UNCHANGED <<stored, activeFile, keychain, accountsJson, nextTok>>

\* load_current_credentials and the reconciliation of the active credential;
\* a failing keychain read is an absent keychain entry
RefreshLoadCurrent(p) ==
    /\ proc[p].pc = "r_current"
    /\ \E f \in FaultChoices :
         /\ faultsLeft' = faultsLeft - Cost(f)
         /\ \E d \in load_current_credentials(activeFile, IF f THEN NoFile ELSE keychain, stored) :
              Set(p, [proc[p] EXCEPT
                        !.kc_loaded = IF f THEN NoFile ELSE read_keychain(keychain),
                        !.active_data = d,
                        !.active_account_id =
                            IF Exists(d)
                            THEN resolve_snapshot_account_id_for_credentials(
                                     proc[p].snapshot, d, stored)
                            ELSE NoId,
                        !.pc = "r_heal"])
    /\ UNCHANGED <<stored, activeFile, keychain, accountsJson, nextTok>>

\* the healing that leaves a missing stored file missing
RefreshHealDriftOnlyExisting(p) ==
    /\ proc[p].pc = "r_heal"
    /\ LET me == proc[p]
           index == ClaudeAccountIndex(me.snapshot, me.active_account_id)
           needs_write == /\ Exists(me.active_data)
                          /\ index # 0
                          /\ Exists(stored[me.active_account_id])
                          /\ stored[me.active_account_id] # me.active_data
           healed == [me.snapshot EXCEPT
                        !.accounts[index].updated_at = utc_now_iso(@)]
       IN IF ~needs_write
          THEN /\ Set(p, [me EXCEPT !.pc = "r_walk", !.idx = 1, !.walked = TRUE])
               /\ UNCHANGED <<stored, accountsJson, faultsLeft>>
          ELSE \E fw \in FaultChoices : \E fs \in (IF fw THEN {FALSE} ELSE FaultChoices) :
                 /\ faultsLeft' = faultsLeft - Cost(fw) - Cost(fs)
                 /\ stored' = [stored EXCEPT ![me.active_account_id] =
                                 write_file_atomic(fw, stored[me.active_account_id], me.active_data)]
                 /\ accountsJson' = IF fw THEN accountsJson
                                    ELSE write_file_atomic(fs, accountsJson, healed)
                 /\ IF fw \/ fs THEN Set(p, Finish([me EXCEPT !.summary = IoError], "error"))
                    ELSE Set(p, [me EXCEPT !.snapshot = healed, !.pc = "r_walk",
                                           !.idx = 1, !.walked = TRUE,
                                           !.wrote = @ \cup {me.active_account_id}])
    /\ UNCHANGED <<activeFile, keychain, nextTok>>

\* the stored file of the active account is overwritten when it differs from
\* the active credential, and the snapshot is saved
RefreshHealDrift(p) ==
    /\ proc[p].pc = "r_heal"
    /\ LET me == proc[p]
           index == ClaudeAccountIndex(me.snapshot, me.active_account_id)
           needs_write == /\ Exists(me.active_data)
                          /\ index # 0
                          /\ stored[me.active_account_id] # me.active_data
           healed == [me.snapshot EXCEPT
                        !.accounts[index].updated_at = utc_now_iso(@)]
       IN IF ~needs_write
          THEN /\ Set(p, [me EXCEPT !.pc = "r_walk", !.idx = 1, !.walked = TRUE])
               /\ UNCHANGED <<stored, accountsJson, faultsLeft>>
          ELSE \E fw \in FaultChoices : \E fs \in (IF fw THEN {FALSE} ELSE FaultChoices) :
                 /\ faultsLeft' = faultsLeft - Cost(fw) - Cost(fs)
                 /\ stored' = [stored EXCEPT ![me.active_account_id] =
                                 write_file_atomic(fw, stored[me.active_account_id], me.active_data)]
                 /\ accountsJson' = IF fw THEN accountsJson
                                    ELSE write_file_atomic(fs, accountsJson, healed)
                 /\ IF fw \/ fs THEN Set(p, Finish([me EXCEPT !.summary = IoError], "error"))
                    ELSE Set(p, [me EXCEPT !.snapshot = healed, !.pc = "r_walk",
                                           !.idx = 1, !.walked = TRUE,
                                           !.wrote = @ \cup {me.active_account_id}])
    /\ UNCHANGED <<activeFile, keychain, nextTok>>

\* the outcome of one account is recorded and the walk moves on
Record(me, outcome, dedupe) ==
    [me EXCEPT
       !.refreshed_by_account_id = Insert(@, me.account_id, outcome),
       !.refreshed_by_lock_id =
           IF dedupe THEN Insert(@, me.lock_id, outcome) ELSE @,
       !.touched_account_ids =
           IF outcome.kind = "success" THEN @ \cup {me.account_id} ELSE @,
       !.idx = @ + 1, !.pc = "r_walk",
       !.account_id = NoId, !.current_data = NoFile, !.lock_id = <<"acct", NoId>>,
       !.lock_keys = <<>>, !.refreshed_data = NoFile, !.op_result = "none",
       !.reuse = FALSE, !.sent = NoToken]

\* the lookup that never finds an earlier outcome
DedupeHitNever(me, lock_id) == FALSE

\* refreshed_by_lock_id.get(&lock_id): an earlier outcome under the lock id
DedupeHit(me, lock_id) == lock_id \in DOMAIN me.refreshed_by_lock_id

\* the head of the loop over the profiles: the skips, the pre-lock read of
\* the stored file, the dedupe lookup by lock id
RefreshWalk(p) ==
    /\ proc[p].pc = "r_walk"
    /\ LET me == proc[p] IN
       IF me.idx > Len(me.profiles)
       THEN /\ Set(p, [me EXCEPT !.pc = "r_save"])
            /\ UNCHANGED faultsLeft
       ELSE
         LET account_id == me.profiles[me.idx].claude_account_id
             index == AccountIndex(me.snapshot, account_id)
             skip == \/ account_id = NoId
                     \/ index = 0
                     \/ me.snapshot.accounts[index].service # "claude"
                     \/ account_id \in DOMAIN me.refreshed_by_account_id
             at == [me EXCEPT !.account_id = account_id,
                              !.attempts = Append(@, <<me.profiles[me.idx].name,
                                                       account_id>>),
                              !.how = Insert(@, account_id, "unreadable"),
                              !.at_walk = Insert(@, account_id, stored[account_id])]
         IN IF skip
            THEN /\ Set(p, [me EXCEPT !.idx = @ + 1])
                 /\ UNCHANGED faultsLeft
            ELSE IF ~Exists(stored[account_id])
            THEN /\ Set(p, Record(at, Failed("error"), FALSE))
                 /\ UNCHANGED faultsLeft
            ELSE \E f \in FaultChoices :
                   /\ faultsLeft' = faultsLeft - Cost(f)
                   /\ IF f THEN Set(p, Record(at, Failed("error"), FALSE))
                      ELSE
                        LET current_data == stored[account_id]
                            lock_id == resolve_refresh_lock_id(current_data, account_id)
                            lock_keys == refresh_lock_keys(current_data, account_id,
                                                           StoredPath(account_id))
                            here == [me EXCEPT !.account_id = account_id,
                                               !.attempts =
                                                   Append(@, <<me.profiles[me.idx].name,
                                                               account_id>>),
                                               !.how = Insert(@, account_id,
                                                   IF DedupeHit(me, lock_id)
                                                   THEN "reuse" ELSE "attempt"),
                                               !.lock_of = Insert(@, account_id, lock_id),
                                               !.at_walk = Insert(@, account_id,
                                                                  current_data),
                                               !.current_data = current_data,
                                               !.lock_id = lock_id,
                                               !.lock_keys = lock_keys]
                        IN IF DedupeHit(me, lock_id)
                           THEN LET existing == me.refreshed_by_lock_id[lock_id] IN
                                IF existing.kind = "success"
                                THEN Set(p, [here EXCEPT !.reuse = TRUE,
                                                         !.refreshed_data = existing.data,
                                                         !.pc = "apply_write"])
                                ELSE Set(p, Record(here, existing, FALSE))
                           ELSE Set(p, [here EXCEPT !.pc = "lock"])
    /\ UNCHANGED <<stored, activeFile, keychain, accountsJson, nextTok>>

\* with_refresh_lock, acquisition: the next lock file of the list is opened
\* and locked; lock_exclusive blocks while another process holds the lock.
\* An error drops the files opened so far, which releases their locks.
AcquireLock(p) ==
    /\ proc[p].pc = "lock"
    /\ LET me == proc[p]
           next == me.lock_keys[Len(me.files) + 1]
       IN \E f \in FaultChoices :
            /\ faultsLeft' = faultsLeft - Cost(f)
            /\ IF f
               THEN Set(p, [me EXCEPT !.files = <<>>, !.op_result = "error",
                                      !.pc = "unlocked"])
               ELSE /\ ~Locked(next)
                    /\ Set(p, [me EXCEPT
                                 !.files = Append(@, next),
                                 !.pc = IF Len(me.files) + 1 = Len(me.lock_keys)
                                        THEN "locked" ELSE "lock"])
    /\ UNCHANGED <<stored, activeFile, keychain, accountsJson, nextTok>>

\* a release that unlocks the files in the order of their acquisition
ReleaseLockInOrder(p) ==
    /\ proc[p].pc = "unlock"
    /\ LET me == proc[p] IN
       Set(p, [me EXCEPT
                 !.files = Tail(@),
                 !.pc = IF Len(me.files) <= 1 THEN "unlocked" ELSE "unlock"])
    /\ UNCHANGED <<stored, activeFile, keychain, accountsJson, nextTok, faultsLeft>>

\* with_refresh_lock, release: the files are unlocked in reverse order
ReleaseLock(p) ==
    /\ proc[p].pc = "unlock"
    /\ LET me == proc[p] IN
       Set(p, [me EXCEPT
                 !.files = SubSeq(@, 1, Len(@) - 1),
                 !.pc = IF Len(me.files) <= 1 THEN "unlocked" ELSE "unlock"])
    /\ UNCHANGED <<stored, activeFile, keychain, accountsJson, nextTok, faultsLeft>>

\* refresh_claude_credentials_always up to the request: the refresh token of
\* the credential is sent to the OAuth client; "" is the request not sent
SendRefresh(me, data) ==
    IF RefreshTokenOf(data) = NoToken
    THEN [me EXCEPT !.op_result = "error"]
    ELSE [me EXCEPT !.current_data = data,
                    !.sent = RefreshTokenOf(data),
                    !.sent_for = Insert(@, me.lock_id, RefreshTokenOf(data)),
                    !.calls = Append(@, RefreshTokenOf(data)),
                    !.pc = "exchanging"]

\* the operation under the locks that sends the token read before the locks
RefreshRereadKeepsFirstRead(p) ==
    /\ proc[p].pc = "locked"
    /\ proc[p].cmd = "refresh"
    /\ LET me == proc[p] IN
       \E f \in FaultChoices :
         /\ faultsLeft' = faultsLeft - Cost(f)
         /\ IF f \/ ~Exists(stored[me.account_id])
            THEN Set(p, [me EXCEPT !.op_result = "error", !.pc = "unlock"])
            ELSE LET sent == SendRefresh(me, me.current_data) IN
                 IF sent.op_result = "error"
                 THEN Set(p, [sent EXCEPT !.pc = "unlock"])
                 ELSE Set(p, sent)
    /\ UNCHANGED <<stored, activeFile, keychain, accountsJson, nextTok>>

\* the operation of refresh under the locks: the re-read of the stored file
\* and the exchange
RefreshReread(p) ==
    /\ proc[p].pc = "locked"
    /\ proc[p].cmd = "refresh"
    /\ LET me == proc[p] IN
       \E f \in FaultChoices :
         /\ faultsLeft' = faultsLeft - Cost(f)
         /\ IF f \/ ~Exists(stored[me.account_id])
            THEN Set(p, [me EXCEPT !.op_result = "error", !.pc = "unlock"])
            ELSE LET sent == SendRefresh(me, stored[me.account_id]) IN
                 IF sent.op_result = "error"
                 THEN Set(p, [sent EXCEPT !.pc = "unlock"])
                 ELSE Set(p, sent)
    /\ UNCHANGED <<stored, activeFile, keychain, accountsJson, nextTok>>

\* the answers of the token endpoint: a new access token with a rotated
\* refresh token, a new access token without refresh_token, or an error
Answers ==
    (IF nextTok <= MaxTok THEN {"rotated"} ELSE {"error"})
    \cup (IF faultsLeft > 0 /\ nextTok <= MaxTok THEN {"same"} ELSE {})
    \cup (IF faultsLeft > 0 THEN {"invalid_grant", "error"} ELSE {})

\* a refresh that stamps a new expiry whatever the response carries
RefreshedAlwaysStamps(data, answer, carried) ==
    ToVecPretty([data EXCEPT
                   !.at = nextTok,
                   !.rt = IF answer = "rotated" THEN nextTok ELSE @,
                   !.expiresAt = nextTok,
                   !.scopes = IF "scope" \in carried THEN ResponseScope ELSE @])

\* refresh_claude_credentials_always from the answer on: the refreshed
\* credential, encoded by to_vec_pretty
Refreshed(data, answer, carried) ==
    ToVecPretty([data EXCEPT
                   !.at = nextTok,
                   !.rt = IF answer = "rotated" THEN nextTok ELSE @,
                   !.expiresAt = IF "expires_in" \in carried THEN nextTok ELSE @,
                   !.scopes = IF "scope" \in carried THEN ResponseScope ELSE @])

\* the optional members expires_in and scope of a token response: the usual
\* response has both, an abnormal one may omit either
Carried(answer) ==
    IF answer \notin {"rotated", "same"} THEN {{}}
    ELSE IF faultsLeft > 0 THEN SUBSET {"expires_in", "scope"}
    ELSE {{"expires_in", "scope"}}

\* the answer of the token endpoint arrives
ExchangeEnd(p) ==
    /\ proc[p].pc = "exchanging"
    /\ LET me == proc[p] IN
       \E answer \in Answers : \E carried \in Carried(answer) :
         LET ok == answer \in {"rotated", "same"}
             free == \/ answer = "rotated" /\ carried = {"expires_in", "scope"}
                     \/ answer = "error" /\ nextTok > MaxTok
             got == [me EXCEPT
                       !.sent = NoToken,
                       !.response = [kind |-> answer, carried |-> carried],
                       !.consumed = IF answer = "rotated" THEN @ \cup {me.sent} ELSE @,
                       !.exchanged = IF ok /\ me.cmd = "refresh"
                                     THEN Insert(@, me.lock_id,
                                                 Refreshed(me.current_data, answer, carried))
                                     ELSE @,
                       !.op_result = IF ok THEN "ok" ELSE classify_refresh_failure(answer),
                       !.refreshed_data =
                           IF ok THEN Refreshed(me.current_data, answer, carried) ELSE NoFile]
         IN /\ nextTok' = IF ok THEN nextTok + 1 ELSE nextTok
            /\ faultsLeft' = IF free THEN faultsLeft ELSE faultsLeft - 1
            /\ Set(p, IF me.cmd = "refresh" THEN [got EXCEPT !.pc = "unlock"]
                      ELSE IF ~ok THEN Finish(got, "ok")
                      ELSE IF me.account_arg = NoId
                      THEN [got EXCEPT !.pc = "sync_kc",
                                       !.sync_data = got.refreshed_data]
                      ELSE [got EXCEPT !.pc = "k_write"])
    /\ UNCHANGED <<stored, activeFile, keychain, accountsJson>>

\* the walk that returns the error of the critical section to the caller
RefreshAfterLockAborts(p) ==
    /\ proc[p].pc = "unlocked"
    /\ proc[p].cmd = "refresh"
    /\ LET me == proc[p] IN
       IF me.op_result = "ok"
       THEN Set(p, [me EXCEPT !.pc = "apply_write"])
       ELSE Set(p, Finish(me, "error"))
    /\ UNCHANGED <<stored, activeFile, keychain, accountsJson, nextTok, faultsLeft>>

\* after the locks are released: the refreshed credential is applied, or the
\* failure is recorded under the account and under the lock id
RefreshAfterLock(p) ==
    /\ proc[p].pc = "unlocked"
    /\ proc[p].cmd = "refresh"
    /\ LET me == proc[p] IN
       IF me.op_result = "ok"
       THEN Set(p, [me EXCEPT !.pc = "apply_write"])
       ELSE Set(p, Record(me, Failed(me.op_result), TRUE))
    /\ UNCHANGED <<stored, activeFile, keychain, accountsJson, nextTok, faultsLeft>>

\* the apply that leaves the stored file of an account served from an
\* earlier outcome as it is
ApplyWriteSkipsReuse(p) ==
    /\ proc[p].pc = "apply_write"
    /\ LET me == proc[p] IN
       \E f \in FaultChoices :
         /\ faultsLeft' = faultsLeft - Cost(f)
         /\ stored' = IF me.reuse THEN stored
                      ELSE [stored EXCEPT ![me.account_id] =
                              write_file_atomic(f, stored[me.account_id], me.refreshed_data)]
         /\ IF f THEN Set(p, Record(me, Failed("error"), ~me.reuse))
            ELSE IF me.active_account_id = me.account_id
            THEN Set(p, [me EXCEPT !.pc = "sync_kc", !.sync_data = me.refreshed_data,
                                   !.wrote = @ \cup {me.account_id}])
            ELSE Set(p, Record([me EXCEPT !.wrote = @ \cup {me.account_id}],
                               Success(me.refreshed_data), ~me.reuse))
    /\ UNCHANGED <<activeFile, keychain, accountsJson, nextTok>>

\* the apply that syncs the active credential for every account
ApplyWriteSyncsAll(p) ==
    /\ proc[p].pc = "apply_write"
    /\ LET me == proc[p] IN
       \E f \in FaultChoices :
         /\ faultsLeft' = faultsLeft - Cost(f)
         /\ stored' = [stored EXCEPT ![me.account_id] =
                         write_file_atomic(f, stored[me.account_id], me.refreshed_data)]
         /\ IF f THEN Set(p, Record(me, Failed("error"), ~me.reuse))
            ELSE Set(p, [me EXCEPT !.pc = "sync_kc", !.sync_data = me.refreshed_data,
                                   !.wrote = @ \cup {me.account_id}])
    /\ UNCHANGED <<activeFile, keychain, accountsJson, nextTok>>

\* apply_refreshed_credentials: the stored file is written, then the active
\* credential is synced when the account is the active one
ApplyWrite(p) ==
    /\ proc[p].pc = "apply_write"
    /\ LET me == proc[p] IN
       \E f \in FaultChoices :
         /\ faultsLeft' = faultsLeft - Cost(f)
         /\ stored' = [stored EXCEPT ![me.account_id] =
                         write_file_atomic(f, stored[me.account_id], me.refreshed_data)]
         /\ IF f THEN Set(p, Record([me EXCEPT !.write_failed = @ \cup {me.account_id}],
                                    Failed("error"), ~me.reuse))
            ELSE IF me.active_account_id = me.account_id
            THEN Set(p, [me EXCEPT !.pc = "sync_kc", !.sync_data = me.refreshed_data,
                                   !.wrote = @ \cup {me.account_id}])
            ELSE Set(p, Record([me EXCEPT !.wrote = @ \cup {me.account_id}],
                               Success(me.refreshed_data), ~me.reuse))
    /\ UNCHANGED <<activeFile, keychain, accountsJson, nextTok>>

(***************************************************************************)
(* active-sync: CAuthApp::sync_active_claude_credentials                   *)
(***************************************************************************)
\* the active-sync that goes on to the active file when the keychain write
\* has failed
SyncKeychainGoesOn(p) ==
    /\ proc[p].pc = "sync_kc"
    /\ LET me == proc[p] IN
       \E fr \in FaultChoices : \E fw \in (IF faultsLeft - Cost(fr) > 0
                                           THEN {FALSE, TRUE} ELSE {FALSE}) :
         LET previous == IF fr THEN NoFile ELSE read_keychain(keychain)
             called == [me EXCEPT !.previous_keychain = previous,
                                  !.kc_before = keychain, !.kc_read_failed = fr,
                                  !.restore_failed = FALSE,
                                  !.kc_writes = @ + Cost(~fw),
                                  !.kc_written = IF fw THEN NoFile ELSE me.sync_data]
         IN /\ faultsLeft' = faultsLeft - Cost(fr) - Cost(fw)
            /\ keychain' = IF fw THEN keychain ELSE me.sync_data
            /\ Set(p, [called EXCEPT !.pc = "sync_file"])
    /\ UNCHANGED <<stored, activeFile, accountsJson, nextTok>>

\* the previous keychain value is read (a failing read is None) and the data
\* is written to the keychain; a failing write returns the error
SyncKeychain(p) ==
    /\ proc[p].pc = "sync_kc"
    /\ LET me == proc[p] IN
       \E fr \in FaultChoices : \E fw \in (IF faultsLeft - Cost(fr) > 0
                                           THEN {FALSE, TRUE} ELSE {FALSE}) :
         LET previous == IF fr THEN NoFile ELSE read_keychain(keychain)
             called == [me EXCEPT !.previous_keychain = previous,
                                  !.kc_before = keychain, !.kc_read_failed = fr,
                                  !.restore_failed = FALSE,
                                  !.kc_writes = @ + Cost(~fw),
                                  !.kc_written = IF fw THEN NoFile ELSE me.sync_data]
         IN /\ faultsLeft' = faultsLeft - Cost(fr) - Cost(fw)
            /\ keychain' = IF fw THEN keychain ELSE me.sync_data
            /\ IF fw
               THEN Set(p, [called EXCEPT !.sync_result = "keychain_failed",
                                          !.pc = "sync_done"])
               ELSE Set(p, [called EXCEPT !.pc = "sync_file"])
    /\ UNCHANGED <<stored, activeFile, accountsJson, nextTok>>

\* the active-sync that reports success without writing the active file
SyncFileKeepsFile(p) ==
    /\ proc[p].pc = "sync_file"
    /\ Set(p, [proc[p] EXCEPT !.sync_result = "ok", !.pc = "sync_done"])
    /\ UNCHANGED <<stored, activeFile, keychain, accountsJson, nextTok, faultsLeft>>

\* the active-sync that leaves the keychain as written when the file write fails
SyncFileNoRestore(p) ==
    /\ proc[p].pc = "sync_file"
    /\ LET me == proc[p] IN
       \E fw \in FaultChoices :
         /\ faultsLeft' = faultsLeft - Cost(fw)
         /\ activeFile' = write_file_atomic(fw, activeFile, me.sync_data)
         /\ Set(p, [me EXCEPT !.sync_result = IF fw THEN "file_failed" ELSE "ok",
                              !.pc = "sync_done"])
    /\ UNCHANGED <<stored, keychain, accountsJson, nextTok>>

\* the data is written to the active file; when the write fails the keychain
\* is restored to the previous value, the error of the restore is dropped
SyncFile(p) ==
    /\ proc[p].pc = "sync_file"
    /\ LET me == proc[p] IN
       \E fw \in FaultChoices : \E fk \in (IF fw /\ faultsLeft > 1
                                           THEN {FALSE, TRUE} ELSE {FALSE}) :
         LET restore == fw /\ Exists(me.previous_keychain) /\ ~fk IN
         /\ faultsLeft' = faultsLeft - Cost(fw) - Cost(fk)
         /\ activeFile' = write_file_atomic(fw, activeFile, me.sync_data)
         /\ keychain' = IF restore THEN me.previous_keychain ELSE keychain
         /\ Set(p, [me EXCEPT !.sync_result = IF fw THEN "file_failed" ELSE "ok",
                              !.restore_failed = fk,
                              !.kc_writes = @ + Cost(restore),
                              !.pc = "sync_done"])
    /\ UNCHANGED <<stored, accountsJson, nextTok>>

\* refresh: the result of apply_refreshed_credentials becomes the outcome
RefreshAfterSync(p) ==
    /\ proc[p].pc = "sync_done"
    /\ proc[p].cmd = "refresh"
    /\ LET me == proc[p] IN
       IF me.sync_result = "ok"
       THEN Set(p, Record(me, Success(me.refreshed_data), ~me.reuse))
       ELSE Set(p, Record(me, Failed("error"), ~me.reuse))
    /\ UNCHANGED <<stored, activeFile, keychain, accountsJson, nextTok, faultsLeft>>

\* the names of a sequence of profiles
RECURSIVE Names(_)
Names(profiles) ==
    IF profiles = <<>> THEN <<>>
    ELSE <<Head(profiles).name>> \o Names(Tail(profiles))

\* the summary that always uses the message of the mixed failures
RefreshSummaryMixedOnly(me) ==
    LET HasFailed(profile) ==
            /\ profile.claude_account_id \in DOMAIN me.refreshed_by_account_id
            /\ me.refreshed_by_account_id[profile.claude_account_id].kind # "success"
        NeedsLogin(profile) ==
            /\ HasFailed(profile)
            /\ me.refreshed_by_account_id[profile.claude_account_id].kind = "needs_login"
        failed_profiles == Names(SelectSeq(me.profiles, HasFailed))
        needs_login_profiles == Names(SelectSeq(me.profiles, NeedsLogin))
    IN IF failed_profiles = <<>>
       THEN Returned("ok", 0, 0, <<>>, 0, Len(me.profiles))
       ELSE Returned("failed", Len(failed_profiles), Len(needs_login_profiles),
                     failed_profiles, 1, Len(me.profiles))

\* the end of refresh: one line per profile is printed, the failed profiles
\* and those that need a login are collected, and the result is returned
RefreshSummary(me) ==
    LET HasFailed(profile) ==
            /\ profile.claude_account_id \in DOMAIN me.refreshed_by_account_id
            /\ me.refreshed_by_account_id[profile.claude_account_id].kind # "success"
        NeedsLogin(profile) ==
            /\ HasFailed(profile)
            /\ me.refreshed_by_account_id[profile.claude_account_id].kind = "needs_login"
        failed_profiles == Names(SelectSeq(me.profiles, HasFailed))
        needs_login_profiles == Names(SelectSeq(me.profiles, NeedsLogin))
    IN IF failed_profiles = <<>>
       THEN Returned("ok", 0, 0, <<>>, 0, Len(me.profiles))
       ELSE IF Len(failed_profiles) = Len(needs_login_profiles)
       THEN Returned("need_login", Len(failed_profiles), Len(needs_login_profiles),
                     needs_login_profiles, 1, Len(me.profiles))
       ELSE Returned("failed", Len(failed_profiles), Len(needs_login_profiles),
                     failed_profiles, 1, Len(me.profiles))

\* a save that writes the profiles in the sorted order of the walk
RefreshSaveSnapshotSorted(p) ==
    /\ proc[p].pc = "r_save"
    /\ LET me == proc[p]
           bumped == [me.snapshot EXCEPT
                        !.profiles = me.profiles,
                        !.accounts = [i \in Indices(me.snapshot.accounts) |->
                            IF me.snapshot.accounts[i].id \in me.touched_account_ids
                            THEN [me.snapshot.accounts[i] EXCEPT
                                    !.updated_at = utc_now_iso(@)]
                            ELSE me.snapshot.accounts[i]]]
           failed == {i \in Indices(me.profiles) :
                        /\ me.profiles[i].claude_account_id \in DOMAIN me.refreshed_by_account_id
                        /\ me.refreshed_by_account_id[me.profiles[i].claude_account_id].kind
                             # "success"}
       IN \E f \in FaultChoices :
            /\ faultsLeft' = faultsLeft - Cost(f)
            /\ accountsJson' = write_file_atomic(f, accountsJson, bumped)
            /\ Set(p, Finish([me EXCEPT !.snapshot = bumped,
                                        !.summary = IF f THEN IoError
                                                    ELSE RefreshSummary(me)],
                             IF f \/ failed # {} THEN "error" ELSE "ok"))
    /\ UNCHANGED <<stored, activeFile, keychain, nextTok>>

\* the accounts touched by the walk get a new updated_at and the snapshot
\* loaded at the start is saved
RefreshSaveSnapshot(p) ==
    /\ proc[p].pc = "r_save"
    /\ LET me == proc[p]
           bumped == [me.snapshot EXCEPT
                        !.accounts = [i \in Indices(me.snapshot.accounts) |->
                            IF me.snapshot.accounts[i].id \in me.touched_account_ids
                            THEN [me.snapshot.accounts[i] EXCEPT
                                    !.updated_at = utc_now_iso(@)]
                            ELSE me.snapshot.accounts[i]]]
           failed == {i \in Indices(me.profiles) :
                        /\ me.profiles[i].claude_account_id \in DOMAIN me.refreshed_by_account_id
                        /\ me.refreshed_by_account_id[me.profiles[i].claude_account_id].kind
                             # "success"}
       IN \E f \in FaultChoices :
            /\ faultsLeft' = faultsLeft - Cost(f)
            /\ accountsJson' = write_file_atomic(f, accountsJson, bumped)
            /\ Set(p, Finish([me EXCEPT !.snapshot = bumped,
                                        !.summary = IF f THEN IoError
                                                    ELSE RefreshSummary(me)],
                             IF f \/ failed # {} THEN "error" ELSE "ok"))
    /\ UNCHANGED <<stored, activeFile, keychain, nextTok>>

(***************************************************************************)
(* switch: CAuthApp::switch_profile                                        *)
(***************************************************************************)
\* a switch that does not look whether the stored credential file exists
SwitchLoadSkipsExists(p) ==
    /\ proc[p].pc = "s_load"
    /\ LET me == proc[p]
           pindex == ProfileIndex(accountsJson, me.name)
           account_id == accountsJson.profiles[pindex].claude_account_id
           found == /\ pindex # 0
                    /\ account_id # NoId
                    /\ ClaudeAccountIndex(accountsJson, account_id) # 0
       IN \E f \in FaultChoices :
            /\ faultsLeft' = faultsLeft - Cost(f)
            /\ IF f \/ ~found THEN Set(p, Finish(me, "error"))
               ELSE Set(p, [me EXCEPT
                              !.snapshot = accountsJson,
                              !.account_id = account_id,
                              !.current_data = stored[account_id],
                              !.lock_keys = refresh_lock_keys(stored[account_id],
                                                              account_id, ActivePath),
                              !.pc = "lock"])
    /\ UNCHANGED <<stored, activeFile, keychain, accountsJson, nextTok>>

\* the profile and its account are looked up in the snapshot and the stored
\* credential is read
SwitchLoad(p) ==
    /\ proc[p].pc = "s_load"
    /\ LET me == proc[p]
           pindex == ProfileIndex(accountsJson, me.name)
           account_id == accountsJson.profiles[pindex].claude_account_id
           found == /\ pindex # 0
                    /\ account_id # NoId
                    /\ ClaudeAccountIndex(accountsJson, account_id) # 0
                    /\ Exists(stored[account_id])
       IN \E f \in FaultChoices :
            /\ faultsLeft' = faultsLeft - Cost(f)
            /\ IF f \/ ~found THEN Set(p, Finish(me, "error"))
               ELSE Set(p, [me EXCEPT
                              !.snapshot = accountsJson,
                              !.account_id = account_id,
                              !.current_data = stored[account_id],
                              !.lock_keys = refresh_lock_keys(stored[account_id],
                                                              account_id, ActivePath),
                              !.pc = "lock"])
    /\ UNCHANGED <<stored, activeFile, keychain, accountsJson, nextTok>>

\* the operation of switch under the locks: the active-sync
SwitchSync(p) ==
    /\ proc[p].pc = "locked"
    /\ proc[p].cmd = "switch"
    /\ Set(p, [proc[p] EXCEPT !.pc = "sync_kc", !.sync_data = proc[p].current_data])
    /\ UNCHANGED <<stored, activeFile, keychain, accountsJson, nextTok, faultsLeft>>

SwitchAfterSync(p) ==
    /\ proc[p].pc = "sync_done"
    /\ proc[p].cmd = "switch"
    /\ Set(p, [proc[p] EXCEPT
                 !.op_result = IF proc[p].sync_result = "ok" THEN "ok" ELSE "error",
                 !.pc = "unlock"])
    /\ UNCHANGED <<stored, activeFile, keychain, accountsJson, nextTok, faultsLeft>>

SwitchAfterLock(p) ==
    /\ proc[p].pc = "unlocked"
    /\ proc[p].cmd = "switch"
    /\ Set(p, Finish(proc[p], proc[p].op_result))
    /\ UNCHANGED <<stored, activeFile, keychain, accountsJson, nextTok, faultsLeft>>

(***************************************************************************)
(* save: CAuthApp::save_current_profile                                    *)
(***************************************************************************)
SaveLoadCurrent(p) ==
    /\ proc[p].pc = "v_load"
    /\ \E f \in FaultChoices :
         /\ faultsLeft' = faultsLeft - Cost(f)
         /\ \E d \in load_current_credentials(activeFile, IF f THEN NoFile ELSE keychain, stored) :
              IF ~Exists(d) THEN Set(p, Finish(proc[p], "error"))
              ELSE Set(p, [proc[p] EXCEPT
                             !.kc_loaded = IF f THEN NoFile ELSE read_keychain(keychain),
                             !.current_data = d, !.pc = "v_write"])
    /\ UNCHANGED <<stored, activeFile, keychain, accountsJson, nextTok>>

\* the snapshot is loaded, the account id reconciled and the credential
\* written to the account's stored file
SaveWrite(p) ==
    /\ proc[p].pc = "v_write"
    /\ LET me == proc[p]
           account_id == resolve_snapshot_account_id_for_credentials(
                             accountsJson, me.current_data, stored)
       IN \E f \in FaultChoices :
            /\ faultsLeft' = faultsLeft - Cost(f)
            /\ stored' = [stored EXCEPT ![account_id] =
                            write_file_atomic(f, stored[account_id], me.current_data)]
            /\ IF f THEN Set(p, Finish(me, "error"))
               ELSE Set(p, [me EXCEPT !.snapshot = accountsJson,
                                      !.prior_snapshot = accountsJson,
                                      !.account_id = account_id,
                                      !.wrote = @ \cup {account_id},
                                      !.pc = "v_save"])
    /\ UNCHANGED <<activeFile, keychain, accountsJson, nextTok>>

\* the label of an account: "claude:" and the hash of the credential bytes
Label(data) == <<"claude", data.at, data.rt, data.form>>

\* the account and the profile are upserted and the snapshot is saved
SaveSnapshot(p) ==
    /\ proc[p].pc = "v_save"
    /\ LET me == proc[p]
           aindex == AccountIndex(me.snapshot, me.account_id)
           account == UsageAccount(me.account_id, "claude", Label(me.current_data),
                          utc_now_iso(IF aindex = 0 THEN 0
                                      ELSE me.snapshot.accounts[aindex].updated_at))
           with_account == upsert_account(me.snapshot, account)
           pindex == ProfileIndex(with_account, me.name)
           profile == UsageProfile(me.name, me.account_id,
                          IF pindex = 0 THEN NoId
                          ELSE with_account.profiles[pindex].codex_account_id,
                          IF pindex = 0 THEN NoId
                          ELSE with_account.profiles[pindex].gemini_account_id)
           saved == upsert_profile(with_account, profile)
       IN \E f \in FaultChoices :
            /\ faultsLeft' = faultsLeft - Cost(f)
            /\ accountsJson' = write_file_atomic(f, accountsJson, saved)
            /\ Set(p, Finish([me EXCEPT !.snapshot = saved], IF f THEN "error" ELSE "ok"))
    /\ UNCHANGED <<stored, activeFile, keychain, nextTok>>

(***************************************************************************)
(* check-usage: CAuthApp::fetch_claude_check_usage                         *)
(***************************************************************************)
\* the credential is the stored one of --account, or the current one; its
\* refresh token is exchanged
CheckLoad(p) ==
    /\ proc[p].pc = "k_load"
    /\ LET me == proc[p]
           candidates ==
               IF me.account_arg # NoId
               THEN IF ClaudeAccountIndex(accountsJson, me.account_arg) # 0
                    THEN {stored[me.account_arg]} ELSE {NoFile}
               ELSE load_current_credentials(activeFile, keychain, stored)
       IN \E data \in candidates :
            IF ~Exists(data) THEN Set(p, Finish(me, "ok"))
            ELSE LET sent == SendRefresh([me EXCEPT !.account_id = me.account_arg], data) IN
                 IF sent.op_result = "error" THEN Set(p, Finish(sent, "ok"))
                 ELSE Set(p, sent)
    /\ UNCHANGED <<stored, activeFile, keychain, accountsJson, nextTok, faultsLeft>>

\* --account with the refreshed credential written to the active file too
CheckWriteAlsoActive(p) ==
    /\ proc[p].pc = "k_write"
    /\ LET me == proc[p] IN
       \E f \in FaultChoices :
         /\ faultsLeft' = faultsLeft - Cost(f)
         /\ stored' = [stored EXCEPT ![me.account_id] =
                         write_file_atomic(f, stored[me.account_id], me.refreshed_data)]
         /\ activeFile' = write_file_atomic(f, activeFile, me.refreshed_data)
         /\ Set(p, Finish([me EXCEPT !.wrote = IF f THEN @ ELSE @ \cup {me.account_id}],
                          "ok"))
    /\ UNCHANGED <<keychain, accountsJson, nextTok>>

\* --account: the refreshed credential is written to the stored file, a
\* failure of the write is dropped
CheckWrite(p) ==
    /\ proc[p].pc = "k_write"
    /\ LET me == proc[p] IN
       \E f \in FaultChoices :
         /\ faultsLeft' = faultsLeft - Cost(f)
         /\ stored' = [stored EXCEPT ![me.account_id] =
                         write_file_atomic(f, stored[me.account_id], me.refreshed_data)]
         /\ Set(p, Finish([me EXCEPT !.wrote = IF f THEN @ ELSE @ \cup {me.account_id}],
                          "ok"))
    /\ UNCHANGED <<activeFile, keychain, accountsJson, nextTok>>

\* the current credential: the result of the active-sync is dropped
CheckAfterSync(p) ==
    /\ proc[p].pc = "sync_done"
    /\ proc[p].cmd = "check"
    /\ Set(p, Finish(proc[p], "ok"))
    /\ UNCHANGED <<stored, activeFile, keychain, accountsJson, nextTok, faultsLeft>>

(***************************************************************************)
(* status: CAuthApp::status_report_lines.  A printed line is kept as what  *)
(* it is made of: the bytes of a credential, the raw usage request with    *)
(* its "Authorization: Bearer <access token>" header, or fixed text.       *)
(***************************************************************************)
\* render_raw_credential: the bytes as text
render_raw_credential(data) == <<"credential", data.at, data.rt>>
\* default_usage_raw_client: request_raw, which has the bearer token
request_raw(access_token) == <<"request", access_token, NoToken>>
SkippedLine == <<"skipped", NoToken, NoToken>>

\* append_status_source_lines: the lines under "Raw Credential:" and under
\* "Raw Request:" for one source
append_status_source_lines(credential_data) ==
    IF ~Exists(credential_data) THEN <<SkippedLine, SkippedLine>>
    ELSE <<render_raw_credential(credential_data),
           IF AccessTokenOf(credential_data) = NoToken THEN SkippedLine
           ELSE request_raw(AccessTokenOf(credential_data))>>

\* status_report_lines: the keychain entry, then the active file
status_report_lines(kc, file_data) ==
    append_status_source_lines(read_keychain(kc))
      \o append_status_source_lines(file_data)

\* status: the report is printed line by line
StatusReport(p) ==
    /\ proc[p].pc = "t_report"
    /\ Set(p, Finish([proc[p] EXCEPT
                        !.printed = status_report_lines(keychain, activeFile)], "ok"))
    /\ UNCHANGED <<stored, activeFile, keychain, accountsJson, nextTok, faultsLeft>>

Step(p) ==
    \/ RefreshLoadSnapshot(p) \/ RefreshLoadCurrent(p) \/ RefreshHealDrift(p)
    \/ RefreshWalk(p) \/ AcquireLock(p) \/ RefreshReread(p) \/ ExchangeEnd(p)
    \/ ReleaseLock(p) \/ RefreshAfterLock(p) \/ ApplyWrite(p)
    \/ SyncKeychain(p) \/ SyncFile(p) \/ RefreshAfterSync(p)
    \/ RefreshSaveSnapshot(p)
    \/ SwitchLoad(p) \/ SwitchSync(p) \/ SwitchAfterSync(p) \/ SwitchAfterLock(p)
    \/ SaveLoadCurrent(p) \/ SaveWrite(p) \/ SaveSnapshot(p)
    \/ CheckLoad(p) \/ CheckWrite(p) \/ CheckAfterSync(p)
    \/ StatusReport(p)

Next == \E p \in Procs : Step(p)

(***************************************************************************)
(* Initial states: a home directory as earlier runs of the tool and of the *)
(* host client leave it, and one command per process.                      *)
(***************************************************************************)
A1 == <<"email", 1, FALSE>>
A2 == <<"email", 2, FALSE>>
L1 == <<"legacy", 1, FALSE>>
L2 == <<"legacy", 2, FALSE>>
X1 == <<"legacy", 3, FALSE>>

\* a credential as the tool writes it, and as the host client writes it
Pretty(at, rt, email) == MkCred(at, rt, email, None, None, None, "pretty")
Raw(at, rt, email, form) == MkCred(at, rt, email, None, None, None, form)

Account0(id, service) == UsageAccount(id, service, Label(NoFile), 1)

NoFiles == [id \in AccountIds |-> NoFile]
Files(a1, l1, l2) ==
    [id \in AccountIds |->
       CASE id = A1 -> a1 [] id = L1 -> l1 [] id = L2 -> l2 [] OTHER -> NoFile]

Commands ==
    {<<"refresh", 0, NoId>>, <<"switch", 1, NoId>>, <<"switch", 2, NoId>>,
     <<"switch", 3, NoId>>, <<"switch", 4, NoId>>,
     <<"save", 2, NoId>>, <<"save", 4, NoId>>,
     <<"check", 0, NoId>>, <<"check", 0, A1>>, <<"check", 0, L1>>,
     <<"status", 0, NoId>>}
Idle == <<"idle", 0, NoId>>

\* a keychain entry or an active file that another program damaged: bytes
\* that are not JSON, a JSON array, an object whose claudeAiOauth is a string
DamagedChoices ==
    {<<NotJson("raw"), Pretty(1, 1, 1)>>,
     <<NotObject("raw"), Pretty(1, 1, 1)>>,
     <<WithoutOauth(2, "scalar", "raw"), Raw(1, 1, 1, "raw")>>,
     <<NoFile, NotJson("raw")>>,
     <<Raw(2, 2, 0, "raw"), NotJson("raw")>>}

\* the active credential: none, the file alone, or keychain and file with the
\* same tokens (the keychain without the metadata, the file with a newline)
ActiveChoices ==
    {<<NoFile, NoFile>>,
     <<NoFile, Pretty(1, 1, 1)>>,
     <<Raw(1, 1, 0, "rawnl"), Raw(1, 1, 1, "rawnl")>>,
     <<Raw(2, 2, 2, "raw"), Raw(1, 1, 1, "raw")>>}
    \cup DamagedChoices

TypeOK ==
    /\ nextTok \in InitTok + 1 .. MaxTok + 1
    /\ faultsLeft \in 0..MaxFaults
    /\ \A id \in AccountIds : stored[id].rt \in 0..MaxTok
    /\ \A p \in Procs : proc[p].pc \in
         {"r_load", "r_current", "r_heal", "r_walk", "r_save", "lock", "locked",
          "exchanging", "unlock", "unlocked", "apply_write", "sync_kc", "sync_file",
          "sync_done", "s_load", "v_load", "v_write", "v_save", "k_load", "k_write",
          "t_report",
          "done"}

\* credentials with metadata: a team flag and a subscription type
WithMetadata(at, rt, email, isTeam, sub) ==
    MkCred(at, rt, email, isTeam, sub, None, "pretty")

\* a home directory whose active credential has a canonical id and a refresh
\* token that no account of the snapshot has, over stored credentials with
\* emails, team flags and plans
InitMetadata ==
    /\ \E a1 \in {WithMetadata(1, 1, 1, None, "pro"),
                   WithMetadata(1, 1, 1, "false", None)} :
       \E l1 \in {WithMetadata(1, 1, 1, "true", "pro"),
                   WithMetadata(1, 1, 1, None, None)} :
       \E l2 \in {WithMetadata(1, 1, 0, None, "pro"), NoFile} :
         stored = Files(a1, l1, l2)
    /\ keychain = NoFile
    /\ activeFile \in {WithMetadata(2, 2, 1, "true", None),
                       WithMetadata(2, 2, 0, None, "pro"),
                       WithMetadata(2, NoToken, 0, None, "pro")}
    /\ accountsJson = AccountsSnapshot(
           <<Account0(A1, "claude"), Account0(L1, "claude"),
             Account0(L2, "claude"), Account0(X1, "codex")>>,
           <<UsageProfile(2, L1, X1, NoId), UsageProfile(1, A1, NoId, X1)>>)
    /\ nextTok = InitTok + 1
    /\ faultsLeft = MaxFaults
    /\ \E c \in {<<"refresh", 0, NoId>>, <<"save", 2, NoId>>, <<"save", 4, NoId>>} :
         proc = [p \in Procs |-> IF p = 1 THEN NewProc(c[1], c[2], c[3])
                                 ELSE NewProc(Idle[1], Idle[2], Idle[3])]

\* a home directory with an account that save created for a credential
\* without email: its id is the hash of the refresh token it had then.  An
\* account of an earlier version can hold the same refresh token (save
\* creates the hash account when the file of that account could not be read)
H2 == <<"hash", 2, FALSE>>
InitHashed ==
    /\ \E l1 \in {Pretty(1, 1, 0), Pretty(2, 2, 0)} :
         stored = [id \in AccountIds |->
                     CASE id = H2 -> Pretty(2, 2, 0) [] id = L1 -> l1 [] OTHER -> NoFile]
    /\ keychain = Pretty(2, 2, 0)
    /\ activeFile = Pretty(2, 2, 0)
    /\ \E accounts \in {<<Account0(L1, "claude"), Account0(H2, "claude")>>,
                         <<Account0(H2, "claude"), Account0(L1, "claude")>>} :
       \E y \in {L1, NoId} :
         accountsJson = AccountsSnapshot(
             accounts, <<UsageProfile(2, y, NoId, NoId), UsageProfile(1, H2, NoId, NoId)>>)
    /\ nextTok = InitTok + 1
    /\ faultsLeft = MaxFaults
    /\ proc = [p \in Procs |-> IF p = 1 THEN NewProc("refresh", 0, NoId)
                               ELSE NewProc(Idle[1], Idle[2], Idle[3])]

\* a home directory as the tool and the host client leave it
InitHome ==
    /\ \E a1 \in {Pretty(1, 1, 1), NoFile} :
       \E l1 \in {Pretty(1, 1, 0), Pretty(2, 2, 0)} :
       \E l2 \in {Pretty(2, 2, 0), Pretty(2, NoToken, 0)} :
         stored = Files(a1, l1, l2)
    /\ \E active \in ActiveChoices :
         /\ keychain = active[1]
         /\ activeFile = active[2]
    /\ \E x \in {A1, L1} : \E y \in {L1, L2, A2, X1} : \E z \in {L2, NoId} :
         accountsJson = AccountsSnapshot(
             <<Account0(A1, "claude"), Account0(L1, "claude"),
               Account0(L2, "claude"), Account0(X1, "codex")>>,
             <<UsageProfile(2, y, X1, NoId), UsageProfile(1, x, NoId, X1),
               UsageProfile(3, z, NoId, NoId)>>)
    /\ nextTok = InitTok + 1
    /\ faultsLeft = MaxFaults
    /\ \E c \in Commands :
         proc = [p \in Procs |-> IF p = 1 THEN NewProc(c[1], c[2], c[3])
                                 ELSE NewProc(Idle[1], Idle[2], Idle[3])]

\* one process runs one command; the other never starts
InitSeq == InitHome \/ InitMetadata \/ InitHashed

\* two processes run one command each, concurrently
Init ==
    /\ \E l1 \in {Pretty(1, 1, 0), Pretty(2, 2, 0)} :
         stored = Files(Pretty(1, 1, 1), l1, NoFile)
    /\ \E active \in {<<Pretty(1, 1, 1), Pretty(1, 1, 1)>>,
                      <<Raw(2, 2, 2, "raw"), Raw(2, 2, 2, "raw")>>} :
         /\ keychain = active[1]
         /\ activeFile = active[2]
    /\ accountsJson = AccountsSnapshot(
           <<Account0(A1, "claude"), Account0(L1, "claude")>>,
           <<UsageProfile(2, L1, NoId, NoId), UsageProfile(1, A1, NoId, NoId)>>)
    /\ nextTok = InitTok + 1
    /\ faultsLeft = 0
    /\ \E c1 \in Commands : \E c2 \in Commands :
         proc = [p \in Procs |-> IF p = 1 THEN NewProc(c1[1], c1[2], c1[3])
                                 ELSE NewProc(c2[1], c2[2], c2[3])]

Spec == Init /\ [][Next]_vars
SpecSeq == InitSeq /\ [][Next]_vars
\* every process is a running operating-system process: it takes its next
\* step whenever that step stays possible
\* two processes, the first of which takes locks, over two accounts that
\* share one refresh token
InitFair ==
    /\ stored = Files(Pretty(1, 1, 1), Pretty(1, 1, 0), NoFile)
    /\ keychain = Pretty(1, 1, 1)
    /\ activeFile = Pretty(1, 1, 1)
    /\ accountsJson = AccountsSnapshot(
           <<Account0(A1, "claude"), Account0(L1, "claude")>>,
           <<UsageProfile(2, L1, NoId, NoId), UsageProfile(1, A1, NoId, NoId)>>)
    /\ nextTok = InitTok + 1
    /\ faultsLeft = 0
    /\ \E c1 \in {<<"refresh", 0, NoId>>, <<"switch", 1, NoId>>} : \E c2 \in Commands :
         proc = [p \in Procs |-> IF p = 1 THEN NewProc(c1[1], c1[2], c1[3])
                                 ELSE NewProc(c2[1], c2[2], c2[3])]
SpecFair == InitFair /\ [][Next]_vars /\ \A p \in Procs : WF_vars(Step(p))

(***************************************************************************)
(* Properties.                                                             *)
(***************************************************************************)
Exchanging(p) == proc[p].pc = "exchanging"
AllDone == \A p \in Procs : proc[p].pc = "done"
\* the process holds every lock of the list it computed
HoldsAll(p) == Range(proc[p].lock_keys) \subseteq Range(proc[p].files)

\* C1: no two processes ever have an OAuth exchange in flight at the same
\* time for the same refresh token.
C1_NoConcurrentExchange ==
    \A p \in Procs : \A q \in Procs \ {p} :
        ~(Exchanging(p) /\ Exchanging(q) /\ proc[p].sent = proc[q].sent)

\* C2: in refresh, the locks acquired for an account whose exchange is
\* performed are still held while the refreshed credential is written to the
\* stored file and while the active credential is synced.
C2_LocksHeldThroughApply ==
    \A p \in Procs :
        (/\ proc[p].cmd = "refresh"
         /\ ~proc[p].reuse
         /\ proc[p].pc \in {"apply_write", "sync_kc", "sync_file"})
        => (proc[p].lock_keys # <<>> /\ HoldsAll(p))

\* C3: every write of an account's stored credential file is a step of a
\* process that holds the lock keyed by the path of that file.
C3_StoredWritesUnderPathLock ==
    [][\A id \in AccountIds :
          stored'[id] # stored[id]
          => \E p \in Procs : Holds(p, StoredPath(id)) /\ proc'[p] # proc[p]]_vars

\* the refresh tokens sent to the OAuth client have pairwise distinct
\* fingerprints
NoRepeat(calls) ==
    \A i \in Indices(calls) : \A j \in Indices(calls) :
        i < j => token_fingerprint(calls[i]) # token_fingerprint(calls[j])

\* C4: within one run of refresh the OAuth client is invoked at most once per
\* refresh-token fingerprint.
C4_OneExchangePerFingerprint ==
    \A p \in Procs : proc[p].cmd = "refresh" => NoRepeat(proc[p].calls)

\* a finished run in which one account was refreshed by an exchange and a
\* second account with the same refresh token reused its result
C4_Witness ==
    \E p \in Procs :
        /\ proc[p].cmd = "refresh" /\ proc[p].pc = "done"
        /\ Len(proc[p].calls) = 1
        /\ \E a \in DOMAIN proc[p].how : \E b \in DOMAIN proc[p].how :
             /\ a # b
             /\ proc[p].how[a] = "attempt" /\ proc[p].how[b] = "reuse"
             /\ proc[p].lock_of[a] = proc[p].lock_of[b]
             /\ proc[p].refreshed_by_account_id[b].kind = "success"

SyncReturned(p, result) == proc[p].pc = "sync_done" /\ proc[p].sync_result = result

\* C5: when sync_active(D) returns success the keychain holds D and the
\* active credential file holds D.
C5_SyncSuccessWritesBoth ==
    \A p \in Procs :
        SyncReturned(p, "ok")
        => (keychain = proc[p].sync_data /\ activeFile = proc[p].sync_data)

\* a successful active-sync that changed both the keychain and the file
C5_Witness ==
    \E p \in Procs :
        /\ SyncReturned(p, "ok")
        /\ proc[p].kc_before # proc[p].sync_data
        /\ keychain = proc[p].sync_data

\* C6 as stated: when sync_active(D) fails at the write of the active file
\* and the keychain held P before the call, the keychain holds P afterwards.
C6_KeychainHoldsPrevious ==
    \A p \in Procs :
        (SyncReturned(p, "file_failed") /\ Exists(proc[p].kc_before))
        => keychain = proc[p].kc_before

\* C6 amended: when sync_active(D) fails at the write of the active file, the
\* keychain afterwards holds the value P read at the start of the call (the
\* entry with surrounding whitespace trimmed) if there was one and the
\* restoring write succeeded, and D otherwise.
C6_KeychainRestoredBestEffort ==
    \A p \in Procs :
        SyncReturned(p, "file_failed")
        => IF /\ Exists(proc[p].kc_before)
              /\ ~proc[p].kc_read_failed
              /\ ~proc[p].restore_failed
           THEN keychain = TrimBytes(proc[p].kc_before)
           ELSE keychain = proc[p].sync_data

\* an active-sync that failed at the file write and restored the keychain
C6_Witness ==
    \E p \in Procs :
        /\ SyncReturned(p, "file_failed")
        /\ Exists(proc[p].kc_before)
        /\ keychain = proc[p].kc_before
        /\ keychain # proc[p].sync_data

\* C7: once all commands have finished, each having completed an
\* active-sync successfully, the keychain entry and the active file hold the
\* same bytes.
C7_KeychainEqualsActiveFile ==
    (AllDone /\ \A p \in Procs : proc[p].sync_result = "ok")
    => keychain = activeFile

Sorted(keys) ==
    \A i \in Indices(keys) : \A j \in Indices(keys) :
        i < j => KeyRank(keys[i]) < KeyRank(keys[j])
Waiting(p) == proc[p].pc = "lock"
NextKey(p) == proc[p].lock_keys[Len(proc[p].files) + 1]
WaitsFor(p, q) == Waiting(p) /\ Holds(q, NextKey(p))
WaitCycle ==
    \E S \in SUBSET Procs \ {{}} : \A p \in S : \E q \in S : WaitsFor(p, q)

\* the key list of every process is strictly ascending, the locks held are an
\* initial part of it, and no processes wait for each other in a cycle
LockDiscipline ==
    /\ \A p \in Procs :
         /\ Sorted(proc[p].lock_keys)
         /\ Len(proc[p].files) <= Len(proc[p].lock_keys)
         /\ proc[p].files = SubSeq(proc[p].lock_keys, 1, Len(proc[p].files))
    /\ ~WaitCycle

\* C8: locks are taken one at a time in ascending key order over a sorted,
\* duplicate-free list, no reachable state has a cycle of waiting processes,
\* and every waiting process eventually holds all its locks.
C8_OrderedLocksNoDeadlock ==
    /\ []LockDiscipline
    /\ \A p \in Procs : Waiting(p) ~> (proc[p].pc = "locked" /\ HoldsAll(p))

\* a process that holds its first lock waits for its second, held by another
C8_Witness ==
    \E p \in Procs : \E q \in Procs \ {p} :
        /\ WaitsFor(p, q)
        /\ Len(proc[p].files) = 1
        /\ Len(proc[q].files) = 2

\* C9: every account and profile written by a save that completed is in the
\* persisted snapshot once all save and refresh processes have finished.
C9_SavedEntriesSurvive ==
    (/\ AllDone
     /\ \A p \in Procs : proc[p].cmd \in {"save", "refresh"}
     /\ \E p \in Procs : proc[p].cmd = "refresh")
    => \A p \in Procs :
         (proc[p].cmd = "save" /\ proc[p].result = "ok")
         => /\ AccountIndex(accountsJson, proc[p].account_id) # 0
            /\ ProfileIndex(accountsJson, proc[p].name) # 0

\* the profiles of a run that link a Claude account of the loaded snapshot
Linked(me) ==
    {i \in Indices(me.profiles) :
       /\ me.profiles[i].claude_account_id # NoId
       /\ ClaudeAccountIndex(me.snapshot, me.profiles[i].claude_account_id) # 0}

\* C10: a run of refresh that has entered the walk ends with an outcome for
\* the account of every profile, and an account is served from an earlier
\* outcome only when an earlier profile's account was attempted under the
\* same lock id: a failure aborts that account only.
C10_FailureDoesNotAbortWalk ==
    \A p \in Procs :
        LET me == proc[p] IN
        (me.cmd = "refresh" /\ me.pc = "done" /\ me.walked)
        => \A i \in Linked(me) :
             LET a == me.profiles[i].claude_account_id IN
             /\ a \in DOMAIN me.refreshed_by_account_id
             /\ a \in DOMAIN me.how
             /\ me.how[a] = "reuse"
                => \E j \in Linked(me) :
                     LET b == me.profiles[j].claude_account_id IN
                     /\ j < i /\ b # a
                     /\ me.how[b] = "attempt"
                     /\ me.lock_of[b] = me.lock_of[a]

\* a run in which the account of an earlier profile failed in its own
\* attempt and the account of a later profile was then refreshed
C10_Witness ==
    \E p \in Procs :
        LET me == proc[p] IN
        /\ me.cmd = "refresh" /\ me.pc = "done" /\ me.walked
        /\ \E i \in Linked(me) : \E j \in Linked(me) :
             LET a == me.profiles[i].claude_account_id
                 b == me.profiles[j].claude_account_id
             IN /\ i < j
                /\ me.how[a] = "attempt"
                /\ me.refreshed_by_account_id[a].kind # "success"
                /\ me.how[b] = "attempt"
                /\ me.refreshed_by_account_id[b].kind = "success"

WalkOver(p) ==
    /\ proc[p].cmd = "refresh" /\ proc[p].walked
    /\ proc[p].pc \in {"r_save", "done"}

\* C11: after the walk of a refresh run the stored file of every account
\* whose outcome is a failure holds the bytes it held when the walk reached
\* the account, and the stored file of every account whose outcome is a
\* success holds the refreshed credential.
C11_FailedFilesUnchanged ==
    \A p \in Procs :
        WalkOver(p)
        => \A a \in DOMAIN proc[p].refreshed_by_account_id :
             IF proc[p].refreshed_by_account_id[a].kind = "success"
             THEN stored[a] = proc[p].refreshed_by_account_id[a].data
             ELSE stored[a] = proc[p].at_walk[a]

\* the run of refresh has ended and the active account was refreshed
ActiveRefreshed(p) ==
    /\ WalkOver(p) /\ proc[p].pc = "done"
    /\ proc[p].active_account_id \in DOMAIN proc[p].refreshed_by_account_id
    /\ proc[p].refreshed_by_account_id[proc[p].active_account_id].kind = "success"

\* C12: when a run of refresh has refreshed the active account, at the end
\* of the run the account's stored file, the active file and the keychain
\* hold the same refreshed credential and the run wrote the keychain once.
C12_ActiveAccountRefreshed ==
    \A p \in Procs :
        ActiveRefreshed(p)
        => LET a == proc[p].active_account_id
               data == proc[p].refreshed_by_account_id[a].data
           IN /\ stored[a] = data
              /\ activeFile = data
              /\ keychain = data
              /\ proc[p].kc_writes = 1

\* a run that refreshed the active account and one more account
C12_Witness ==
    \E p \in Procs :
        /\ ActiveRefreshed(p)
        /\ keychain = stored[proc[p].active_account_id]
        /\ keychain # proc[p].kc_before
        /\ \E b \in DOMAIN proc[p].refreshed_by_account_id :
             /\ b # proc[p].active_account_id
             /\ proc[p].refreshed_by_account_id[b].kind = "success"

SameTokens(c, d) ==
    /\ AccessTokenOf(c) = AccessTokenOf(d)
    /\ RefreshTokenOf(c) = RefreshTokenOf(d)

\* the accounts of a run that were read with a refresh token that another
\* account of the run has too, and for which the exchange of that token
\* succeeded
SharedExchanged(p) ==
    {a \in DOMAIN proc[p].lock_of :
       /\ proc[p].lock_of[a][1] = "fp"
       /\ proc[p].lock_of[a] \in DOMAIN proc[p].exchanged
       /\ \E b \in DOMAIN proc[p].lock_of \ {a} :
            proc[p].lock_of[b] = proc[p].lock_of[a]}

FailedProfiles(p) ==
    {i \in Indices(proc[p].profiles) :
       LET a == proc[p].profiles[i].claude_account_id IN
       /\ a \in DOMAIN proc[p].refreshed_by_account_id
       /\ proc[p].refreshed_by_account_id[a].kind # "success"}
NeedLoginProfiles(p) ==
    {i \in FailedProfiles(p) :
       proc[p].refreshed_by_account_id[proc[p].profiles[i].claude_account_id].kind
         = "needs_login"}
RefreshReturned(p) == proc[p].cmd = "refresh" /\ proc[p].pc = "done"

\* what the claim says refresh returns, given the outcomes of the profiles
SummaryMatchesOutcomes(p) ==
    LET r == proc[p].summary
        failed == FailedProfiles(p)
        needs == NeedLoginProfiles(p)
    IN /\ (r.kind = "ok") <=> (failed = {})
       /\ (failed # {} /\ needs = failed)
          => /\ r.kind = "need_login"
             /\ r.n = Cardinality(failed)
       /\ (failed # {} /\ needs # failed)
          => /\ r.kind = "failed"
             /\ r.n = Cardinality(failed)
             /\ r.k = Cardinality(needs)
       /\ r.kind # "ok"
          => /\ r.exit_code = 1
             /\ r.lines = Len(proc[p].profiles)
             /\ Len(r.names) = Cardinality(failed)
             /\ Range(r.names) = {proc[p].profiles[i].name : i \in failed}

\* C14 as stated: refresh returns success exactly when no profile failed,
\* the need-login error when all failed profiles need a login, the mixed
\* error otherwise, with the counts of profiles, exit code 1, and after one
\* line per profile was printed.
C14_SummaryOfOutcomes ==
    \A p \in Procs : RefreshReturned(p) => SummaryMatchesOutcomes(p)

\* C14 amended: the same, for a run whose snapshot load, drift healing and
\* snapshot save succeeded; when one of them fails refresh returns that
\* error with exit code 1 and no per-profile line is printed.
C14_SummaryUnlessIoError ==
    \A p \in Procs :
        RefreshReturned(p)
        => IF proc[p].summary.kind = "io"
           THEN proc[p].summary.exit_code = 1 /\ proc[p].summary.lines = 0
           ELSE SummaryMatchesOutcomes(p)

\* a run in which at least two profiles failed, one of them needing a login
C14_Witness ==
    \E p \in Procs :
        /\ RefreshReturned(p)
        /\ proc[p].summary.kind = "failed"
        /\ proc[p].summary.n >= 2
        /\ proc[p].summary.k = 1

\* refresh has just reconciled the active credential against its snapshot
Reconciled(p) ==
    /\ proc[p].cmd = "refresh" /\ proc[p].pc = "r_heal"
    /\ Exists(proc[p].active_data)

\* the Claude accounts of the snapshot whose stored credential has the
\* refresh-token fingerprint of the reconciled credential, by index
FingerprintSharers(p) ==
    {i \in Indices(proc[p].snapshot.accounts) :
       LET account == proc[p].snapshot.accounts[i] IN
       /\ account.service = "claude"
       /\ Exists(stored[account.id])
       /\ token_fingerprint(RefreshTokenOf(proc[p].active_data)) # 0
       /\ token_fingerprint(RefreshTokenOf(stored[account.id]))
            = token_fingerprint(RefreshTokenOf(proc[p].active_data))}

CanonicalInSnapshot(p) ==
    ClaudeAccountIndex(proc[p].snapshot,
                       resolve_claude_account_id(proc[p].active_data)) # 0

AccountMode(p) == proc[p].cmd = "check" /\ proc[p].account_arg # NoId

\* C16: no step of `check-usage --account <id>` changes the active file or
\* the keychain, and the only stored file a step changes is that of <id>,
\* which then holds the refreshed credential.
C16_AccountModeFrame ==
    [][\A p \in Procs :
         (AccountMode(p) /\ proc'[p] # proc[p])
         => /\ activeFile' = activeFile
            /\ keychain' = keychain
            /\ \A id \in AccountIds \ {proc[p].account_arg} : stored'[id] = stored[id]
            /\ stored'[proc[p].account_arg] # stored[proc[p].account_arg]
               => stored'[proc[p].account_arg] = proc[p].refreshed_data]_vars

\* `check-usage --account` of the active account has rewritten the stored
\* file of the account, and the active file keeps the tokens it had
C16_Witness ==
    \E p \in Procs :
        /\ AccountMode(p) /\ proc[p].pc = "done"
        /\ proc[p].account_arg \in proc[p].wrote
        /\ Exists(activeFile)
        /\ resolve_claude_account_id(activeFile) = proc[p].account_arg
        /\ stored[proc[p].account_arg] = proc[p].refreshed_data
        /\ ~SameTokens(stored[proc[p].account_arg], activeFile)

\* refresh has just called load_current and holds what it returned
Loaded(p) == proc[p].cmd = "refresh" /\ proc[p].pc = "r_heal"

\* C17: when the keychain entry read by load_current is a JSON object, the
\* credential returned has the tokens of the keychain entry whatever the
\* active file and the stored files hold, every key that has a non-null value
\* in the keychain entry keeps that value, and no key other than the metadata
\* keys is added: the key claudeAiOauth is what it was in the keychain entry.
C17_MergeOnlyAddsMetadata ==
    \A p \in Procs :
        (Loaded(p) /\ Exists(proc[p].kc_loaded) /\ proc[p].kc_loaded.json = "object")
        => LET kc == proc[p].kc_loaded
               got == proc[p].active_data
           IN /\ SameTokens(got, kc)
              /\ kc.email # 0 => got.email = kc.email
              /\ kc.isTeam # None => got.isTeam = kc.isTeam
              /\ kc.sub # None => got.sub = kc.sub
              /\ kc.tier # None => got.tier = kc.tier
              /\ got.oauth = kc.oauth

\* C18: load_current returns absent only when the keychain entry is absent
\* and the active file is missing; a keychain entry that is not a JSON
\* object, not valid JSON included, is returned as it was read; an absent
\* keychain entry makes it return the bytes of the active file.
C18_LoadCurrentFallbacks ==
    \A p \in Procs :
        Loaded(p)
        => LET kc == proc[p].kc_loaded
               got == proc[p].active_data
           IN /\ ~Exists(got) => (~Exists(kc) /\ ~Exists(activeFile))
              /\ (Exists(kc) /\ kc.json # "object") => got = kc
              /\ ~Exists(kc) => got = activeFile

\* `save <name>` has returned success
SaveSucceeded(p) ==
    proc[p].cmd = "save" /\ proc[p].pc = "done" /\ proc[p].result = "ok"

\* the profiles of the persisted snapshot that are named as the saved one
NamedAsSaved(p) ==
    {i \in Indices(accountsJson.profiles) :
       accountsJson.profiles[i].name = proc[p].name}

\* C19: after `save <name>` succeeds with current credential D and prior
\* snapshot S, the persisted snapshot has a Claude account whose id is the
\* reconciliation of D against S, the stored file of that id holds exactly D,
\* and exactly one profile is named <name>: its claude account id is that id
\* and its codex and gemini account ids are those the profile had in S,
\* absent for a new profile.
C19_SavePostcondition ==
    \A p \in Procs :
        SaveSucceeded(p)
        => LET D == proc[p].current_data
               S == proc[p].prior_snapshot
               id == resolve_snapshot_account_id_for_credentials(S, D, stored)
               before == ProfileIndex(S, proc[p].name)
           IN /\ ClaudeAccountIndex(accountsJson, id) # 0
              /\ stored[id] = D
              /\ Cardinality(NamedAsSaved(p)) = 1
              /\ \A i \in NamedAsSaved(p) :
                   /\ accountsJson.profiles[i].claude_account_id = id
                   /\ accountsJson.profiles[i].codex_account_id =
                        IF before = 0 THEN NoId ELSE S.profiles[before].codex_account_id
                   /\ accountsJson.profiles[i].gemini_account_id =
                        IF before = 0 THEN NoId ELSE S.profiles[before].gemini_account_id

\* save has relinked an existing profile that has a codex account to another
\* Claude account
C19_Witness ==
    \E p \in Procs :
        /\ SaveSucceeded(p)
        /\ ProfileIndex(proc[p].prior_snapshot, proc[p].name) # 0
        /\ LET old == proc[p].prior_snapshot.profiles[
                          ProfileIndex(proc[p].prior_snapshot, proc[p].name)]
           IN /\ old.codex_account_id # NoId
              /\ old.claude_account_id # proc[p].account_id
              /\ \E i \in NamedAsSaved(p) :
                   /\ accountsJson.profiles[i].claude_account_id = proc[p].account_id
                   /\ accountsJson.profiles[i].codex_account_id = old.codex_account_id
        /\ stored[proc[p].account_id] = proc[p].current_data

\* no two accounts of the snapshot have one id, no two profiles one name
DistinctKeys(snapshot) ==
    /\ \A i \in Indices(snapshot.accounts) : \A j \in Indices(snapshot.accounts) :
         snapshot.accounts[i].id = snapshot.accounts[j].id => i = j
    /\ \A i \in Indices(snapshot.profiles) : \A j \in Indices(snapshot.profiles) :
         snapshot.profiles[i].name = snapshot.profiles[j].name => i = j

\* C20: starting from a snapshot whose account ids are pairwise distinct and
\* whose profile names are pairwise distinct, the persisted snapshot has
\* pairwise distinct account ids and pairwise distinct profile names after
\* every save and every refresh.
C20_SnapshotKeysDistinct == DistinctKeys(accountsJson)

\* a save and a refresh have both returned; the save replaced an account of
\* its snapshot in place and appended a profile
C20_Witness ==
    \E p \in Procs : \E q \in Procs \ {p} :
        /\ SaveSucceeded(p)
        /\ proc[q].cmd = "refresh" /\ proc[q].pc = "done" /\ proc[q].result = "ok"
        /\ AccountIndex(proc[p].prior_snapshot, proc[p].account_id) # 0
        /\ ProfileIndex(proc[p].prior_snapshot, proc[p].name) = 0
        /\ ProfileIndex(accountsJson, proc[p].name) # 0
        /\ Len(accountsJson.accounts) = Len(proc[p].prior_snapshot.accounts)

\* the bytes are a whole file, not the beginning of one
Complete(file) == file.form # "partial"

\* the credentials a process holds in memory and may be writing to a file
Held(p) ==
    {proc[p].active_data, proc[p].current_data, proc[p].refreshed_data,
     proc[p].sync_data}

C22_ActiveFileAfterKeychain ==
    [][/\ activeFile' # activeFile
          => \E p \in Procs :
               /\ proc[p].pc = "sync_file" /\ proc'[p].pc = "sync_done"
               /\ Exists(proc[p].kc_written)
               /\ activeFile' = proc[p].kc_written
       /\ \A p \in Procs :
            (proc[p].pc = "sync_kc" /\ proc'[p] # proc[p]
               /\ ~Exists(proc'[p].kc_written))
            => /\ activeFile' = activeFile
               /\ proc'[p].pc = "sync_done"
               /\ proc'[p].sync_result = "keychain_failed"]_vars

\* an active-sync call has written the keychain and then the active file
C22_Witness ==
    \E p \in Procs :
        /\ proc[p].pc = "sync_done" /\ proc[p].sync_result = "ok"
        /\ Exists(proc[p].kc_written)
        /\ proc[p].kc_before # proc[p].kc_written
        /\ keychain = proc[p].kc_written
        /\ activeFile = proc[p].kc_written

\* C23: a step of a refresh run changes accounts.json only in the save that
\* follows the walk over all profiles, never before or during the walk.
C23_SnapshotSavedAfterWalk ==
    [][\A p \in Procs :
         (proc[p].cmd = "refresh" /\ proc'[p] # proc[p]
            /\ accountsJson' # accountsJson)
         => /\ proc[p].pc = "r_save"
            /\ proc[p].idx > Len(proc[p].profiles)]_vars

\* the token values that a printed line or a log record contains
TokensIn(line) == {line[2], line[3]} \ {NoToken}

\* C24: no printed line and no log record of any command contains the value
\* of an access token or of a refresh token.
C24_NoTokenInOutput ==
    \A p \in Procs : \A i \in 1..Len(proc[p].printed) :
        TokensIn(proc[p].printed[i]) = {}

\* the email has one "@", a local part of ASCII alphanumerics and a domain
\* of ASCII alphanumerics with single separators inside it
PlainEmail(text) ==
    \E at \in 2..(Len(text) - 1) :
        /\ text[at] = "@"
        /\ \A i \in 1..(at - 1) : text[i] \in Alphanumeric
        /\ text[at + 1] \in Alphanumeric /\ text[Len(text)] \in Alphanumeric
        /\ \A i \in (at + 1)..(Len(text) - 1) :
             text[i] \in Alphanumeric \/ text[i + 1] \in Alphanumeric

\* save has derived the account id of the current credential
Derived(p) == proc[p].cmd = "save" /\ proc[p].pc = "v_save"

\* C25: for a credential whose email has an alphanumeric local part and a
\* domain with single separators, and any team flag, email_from_account_id of
\* the canonical account id is the lowercased email.
C25_EmailRoundTrip ==
    \A p \in Procs :
        LET data == proc[p].current_data
            email == EmailText(extract_claude_email(data))
        IN (Derived(p) /\ extract_claude_email(data) # 0 /\ PlainEmail(email))
           => email_from_account_id(
                  email_account_id(email, resolve_claude_is_team(data) = "true"))
              = to_lowercase(email)

Bumped(snapshot, index) ==
    [snapshot EXCEPT !.accounts[index].updated_at = utc_now_iso(@)]

\* C27: in the step of refresh between load_current and the walk, if an
\* active credential exists, reconciles to the id of a Claude account of the
\* snapshot, and the stored file of that account is missing or differs from
\* the active bytes, then when the walk starts that stored file holds the
\* active bytes, no other stored file has changed and only that account's
\* updated_at is advanced in the snapshot; otherwise the step writes no
\* stored file and leaves the snapshot as it was.
C27_DriftHealing ==
    [][\A p \in Procs :
         (proc[p].cmd = "refresh" /\ proc[p].pc = "r_heal" /\ proc'[p] # proc[p])
         => LET me == proc[p]
                id == resolve_snapshot_account_id_for_credentials(
                          me.snapshot, me.active_data, stored)
                index == ClaudeAccountIndex(me.snapshot, id)
                drift == /\ Exists(me.active_data)
                         /\ index # 0
                         /\ stored[id] # me.active_data
            IN IF drift
               THEN /\ \A other \in AccountIds \ {id} : stored'[other] = stored[other]
                    /\ IF proc'[p].pc = "r_walk"
                       THEN /\ stored'[id] = me.active_data
                            /\ proc'[p].snapshot = Bumped(me.snapshot, index)
                       ELSE /\ proc'[p].pc = "done"
                            /\ proc'[p].result = "error"
               ELSE /\ stored' = stored
                    /\ accountsJson' = accountsJson
                    /\ proc'[p].snapshot = me.snapshot
                    /\ proc'[p].pc = "r_walk"]_vars

\* refresh has restored the missing stored file of the active account and
\* is about to start the walk
C27_Witness ==
    \E p \in Procs :
        /\ proc[p].cmd = "refresh" /\ proc[p].pc = "r_walk" /\ proc[p].idx = 1
        /\ proc[p].refreshed_by_account_id = EmptyMap
        /\ proc[p].active_account_id \in proc[p].wrote
        /\ stored[proc[p].active_account_id] = proc[p].active_data
        /\ ClaudeAccountIndex(proc[p].snapshot, proc[p].active_account_id) # 0
        /\ accountsJson = proc[p].snapshot

\* the profiles of the run that are linked to the account
LinkedBy(p, id) ==
    {i \in Indices(proc[p].profiles) : proc[p].profiles[i].claude_account_id = id}

\* C28: a step of refresh changes the keychain or the active credential file
\* only in the active-sync of the account whose id is the active account id
\* resolved at the start of the run, after the stored file of that account
\* has been written; so neither is written when there is no active
\* credential, when no profile is linked to the active account, or when the
\* refresh of that account fails before its stored file is written.
C28_ActiveWritesOnlyForActiveAccount ==
    [][\A p \in Procs :
         (/\ proc[p].cmd = "refresh" /\ proc'[p] # proc[p]
          /\ keychain' # keychain \/ activeFile' # activeFile)
         => /\ proc[p].pc \in {"sync_kc", "sync_file"}
            /\ Exists(proc[p].active_data)
            /\ proc[p].account_id # NoId
            /\ proc[p].account_id = proc[p].active_account_id
            /\ LinkedBy(p, proc[p].account_id) # {}
            /\ proc[p].account_id \in proc[p].wrote
            /\ proc[p].sync_data = proc[p].refreshed_data]_vars

\* a run has refreshed another account while the refresh of the active
\* account failed before its stored file was written: the keychain was not
\* written
C28_Witness ==
    \E p \in Procs :
        /\ RefreshReturned(p)
        /\ Exists(proc[p].active_data)
        /\ proc[p].active_account_id \in DOMAIN proc[p].refreshed_by_account_id
        /\ proc[p].refreshed_by_account_id[proc[p].active_account_id].kind # "success"
        /\ proc[p].active_account_id \notin proc[p].wrote
        /\ proc[p].touched_account_ids # {}
        /\ proc[p].kc_writes = 0
        /\ keychain = proc[p].kc_loaded

\* a command has loaded the current credential and the snapshot it
\* reconciles it against, and no file has changed since
Reconciling(p) ==
    \/ proc[p].cmd = "refresh" /\ proc[p].pc = "r_heal" /\ Exists(proc[p].active_data)
    \/ proc[p].cmd = "save" /\ proc[p].pc = "v_write"
ReconciledData(p) ==
    IF proc[p].cmd = "refresh" THEN proc[p].active_data ELSE proc[p].current_data
ReconciledSnapshot(p) ==
    IF proc[p].cmd = "refresh" THEN proc[p].snapshot ELSE accountsJson

\* the rules of the metadata step as the claim words them
HasTeam(c) == resolve_claude_is_team(c) # None
Eliminated(target, existing) ==
    \/ /\ extract_claude_email(target) # 0
       /\ extract_claude_email(existing) # extract_claude_email(target)
    \/ /\ HasTeam(target) /\ HasTeam(existing)
       /\ resolve_claude_is_team(existing) # resolve_claude_is_team(target)
Points(target, existing) ==
    (IF /\ extract_claude_email(target) # 0
        /\ extract_claude_email(existing) = extract_claude_email(target)
     THEN 100 ELSE 0)
    + (IF /\ HasTeam(target) /\ HasTeam(existing)
          /\ resolve_claude_is_team(existing) = resolve_claude_is_team(target)
       THEN 30 ELSE 0)
    + (IF /\ resolve_claude_plan(target) # None
          /\ resolve_claude_plan(existing) = resolve_claude_plan(target)
       THEN 10 ELSE 0)
Candidates(snapshot, target) ==
    {i \in Indices(snapshot.accounts) :
       /\ snapshot.accounts[i].service = "claude"
       /\ Exists(stored[snapshot.accounts[i].id])
       /\ ~Eliminated(target, stored[snapshot.accounts[i].id])
       /\ Points(target, stored[snapshot.accounts[i].id]) > 0}
TopScorers(snapshot, target) ==
    {i \in Candidates(snapshot, target) :
       \A j \in Candidates(snapshot, target) :
         Points(target, stored[snapshot.accounts[j].id])
           <= Points(target, stored[snapshot.accounts[i].id])}

\* the Claude accounts whose readable stored credential has the refresh
\* token of the target
SameFingerprint(snapshot, target) ==
    {i \in Indices(snapshot.accounts) :
       /\ snapshot.accounts[i].service = "claude"
       /\ Exists(stored[snapshot.accounts[i].id])
       /\ RefreshTokenOf(target) # NoToken
       /\ RefreshTokenOf(stored[snapshot.accounts[i].id]) = RefreshTokenOf(target)}

\* C29: the metadata step of the reconciliation returns account X exactly
\* when X is the unique highest scorer among the Claude accounts with a
\* readable stored credential that are not eliminated and have a positive
\* score (+100 email, +30 team flag, +10 plan); it returns absent when there
\* is no candidate or when two or more share the top score, and then the
\* reconciliation that found no fingerprint match returns the canonical id.
C29_MetadataUniqueTopScorer ==
    \A p \in Procs :
        Reconciling(p)
        => LET S == ReconciledSnapshot(p)
               D == ReconciledData(p)
               top == TopScorers(S, D)
               got == resolve_snapshot_account_id_by_metadata(S, D, stored)
           IN /\ \A i \in Indices(S.accounts) :
                   got = S.accounts[i].id <=> top = {i}
              /\ Cardinality(top) # 1 => got = NoId
              /\ (Cardinality(top) # 1 /\ SameFingerprint(S, D) = {})
                 => resolve_snapshot_account_id_for_credentials(S, D, stored)
                      = resolve_claude_account_id(D)

\* the metadata step has returned the account that the team flag puts ahead
\* of another account with the same email
C29_Witness ==
    \E p \in Procs :
        /\ Reconciling(p)
        /\ LET S == ReconciledSnapshot(p)
               D == ReconciledData(p)
           IN /\ Cardinality(Candidates(S, D)) > 1
              /\ Cardinality(TopScorers(S, D)) = 1
              /\ \E i \in TopScorers(S, D) :
                   /\ Points(D, stored[S.accounts[i].id]) = 130
                   /\ resolve_snapshot_account_id_by_metadata(S, D, stored)
                        = S.accounts[i].id

\* C30: the reconciliation applies its steps in order for every credential:
\* the canonical id when the snapshot has a Claude account of that id, else
\* the first account with the refresh-token fingerprint, else the unique top
\* metadata scorer, else the canonical id; a credential without a refresh
\* token whose canonical id is not in the snapshot gets the unique top
\* metadata scorer when there is one.
C30_ReconciliationOrder ==
    \A p \in Procs :
        Reconciling(p)
        => LET S == ReconciledSnapshot(p)
               D == ReconciledData(p)
               canonical == resolve_claude_account_id(D)
               top == TopScorers(S, D)
           IN resolve_snapshot_account_id_for_credentials(S, D, stored)
              = IF ClaudeAccountIndex(S, canonical) # 0 THEN canonical
                ELSE IF SameFingerprint(S, D) # {}
                THEN S.accounts[FirstIndex(SameFingerprint(S, D))].id
                ELSE IF Cardinality(top) = 1
                THEN S.accounts[FirstIndex(top)].id
                ELSE canonical

\* the profiles of the run that link the account, by name
LinkingNames(p, id) == {proc[p].profiles[i].name : i \in LinkedBy(p, id)}
Least(names) == CHOOSE n \in names : \A m \in names : n <= m
AttemptsOf(p, id) ==
    {k \in Indices(proc[p].attempts) : proc[p].attempts[k][2] = id}

\* C31: refresh attempts accounts in ascending order of the profile names;
\* an account linked by several profiles is attempted once, at the first of
\* them in name order, and when the run returns its summary every profile
\* linked to a failed account is one failed entry of the summary.
C31_OneAttemptPerAccountInNameOrder ==
    \A p \in Procs :
        LET me == proc[p] IN
        (me.cmd = "refresh") =>
          /\ \A i \in Indices(me.profiles) : \A j \in Indices(me.profiles) :
                 i < j => me.profiles[i].name < me.profiles[j].name
          /\ \A k \in Indices(me.attempts) : \A l \in Indices(me.attempts) :
                 k < l => /\ me.attempts[k][1] < me.attempts[l][1]
                          /\ me.attempts[k][2] # me.attempts[l][2]
          /\ \A k \in Indices(me.attempts) :
                 me.attempts[k][1] = Least(LinkingNames(p, me.attempts[k][2]))
          /\ DOMAIN me.refreshed_by_account_id
                 \subseteq {me.attempts[k][2] : k \in Indices(me.attempts)}
          /\ (me.pc = "done" /\ me.summary.kind \in {"ok", "failed", "need_login"})
             => /\ me.summary.n = Cardinality(FailedProfiles(p))
                /\ Range(me.summary.names) =
                       {me.profiles[i].name : i \in FailedProfiles(p)}
                /\ \A id \in DOMAIN me.refreshed_by_account_id :
                       Cardinality(AttemptsOf(p, id)) = 1

\* a run returned after an account linked by two profiles failed: it was
\* attempted once and both profiles are in the summary
C31_Witness ==
    \E p \in Procs : \E id \in DOMAIN proc[p].refreshed_by_account_id :
        /\ RefreshReturned(p)
        /\ proc[p].summary.kind \in {"failed", "need_login"}
        /\ Cardinality(LinkedBy(p, id)) >= 2
        /\ proc[p].refreshed_by_account_id[id].kind # "success"
        /\ Cardinality(AttemptsOf(p, id)) = 1
        /\ proc[p].summary.n >= 2

\* the process is inside with_refresh_lock
InLockSection(p) ==
    \/ proc[p].pc \in {"lock", "locked", "exchanging", "unlock"}
    \/ /\ proc[p].cmd = "switch"
       /\ proc[p].pc \in {"sync_kc", "sync_file", "sync_done"}

\* C32: once with_refresh_lock has returned the process holds no lock, also
\* when acquiring a later lock of the list failed; the locks it holds are a
\* prefix of the sorted list, after the operation they are released last
\* acquired first, and the result of the operation is not changed by the
\* release.
C32_LocksReleasedOnReturn ==
    /\ [](\A p \in Procs :
            /\ ~InLockSection(p) => proc[p].files = <<>>
            /\ Len(proc[p].files) <= Len(proc[p].lock_keys)
            /\ proc[p].files = SubSeq(proc[p].lock_keys, 1, Len(proc[p].files)))
    /\ [][\A p \in Procs :
            /\ (proc[p].pc = "lock" /\ proc'[p].pc = "unlocked")
               => /\ proc'[p].files = <<>>
                  /\ proc'[p].op_result = "error"
            /\ (proc[p].pc = "unlock" /\ proc'[p] # proc[p])
               => /\ proc[p].files # <<>>
                  /\ proc'[p].files =
                         SubSeq(proc[p].files, 1, Len(proc[p].files) - 1)
                  /\ proc'[p].op_result = proc[p].op_result
                  /\ proc'[p].refreshed_data = proc[p].refreshed_data
                  /\ proc'[p].pc = IF proc'[p].files = <<>>
                                   THEN "unlocked" ELSE "unlock"]_vars

\* with_refresh_lock returned the success of its operation after it took and
\* released two locks
C32_Witness ==
    \E p \in Procs :
        /\ proc[p].pc = "unlocked"
        /\ proc[p].op_result = "ok"
        /\ Len(proc[p].lock_keys) >= 2
        /\ proc[p].files = <<>>

\* the profile exists, has a Claude account id, the id is a Claude account
\* of the snapshot and its stored credential file exists
Switchable(name) ==
    /\ \E i \in Indices(accountsJson.profiles) :
         /\ accountsJson.profiles[i].name = name
         /\ \A j \in 1..(i - 1) : accountsJson.profiles[j].name # name
         /\ accountsJson.profiles[i].claude_account_id # NoId
         /\ \E a \in Indices(accountsJson.accounts) :
              /\ accountsJson.accounts[a].id = accountsJson.profiles[i].claude_account_id
              /\ accountsJson.accounts[a].service = "claude"
         /\ stored[accountsJson.profiles[i].claude_account_id] # NoFile

\* C33: switch fails, changing neither the keychain nor the active file,
\* when the profile does not exist, has no Claude account id, its id is not
\* a Claude account of the snapshot or the stored file is missing; when it
\* succeeds the keychain and the active file equal the stored credential;
\* it writes them only while it holds the locks of the active path and of
\* the fingerprint of the credential's refresh token; it never changes the
\* snapshot or a stored file.
C33_SwitchFrame ==
    [][\A p \in Procs :
         (proc[p].cmd = "switch" /\ proc'[p] # proc[p])
         => /\ accountsJson' = accountsJson
            /\ stored' = stored
            /\ (proc[p].pc = "s_load" /\ ~Switchable(proc[p].name))
               => /\ proc'[p].pc = "done"
                  /\ proc'[p].result = "error"
                  /\ keychain' = keychain
                  /\ activeFile' = activeFile
            /\ (keychain' # keychain \/ activeFile' # activeFile)
               => /\ ActivePath \in Range(proc[p].files)
                  /\ RefreshTokenOf(proc[p].current_data) # NoToken
                     => TokenKey(short_hash_hex(RefreshTokenOf(proc[p].current_data)))
                            \in Range(proc[p].files)
            /\ (proc'[p].pc = "done" /\ proc'[p].result = "ok")
               => /\ keychain' = stored[proc[p].account_id]
                  /\ activeFile' = stored[proc[p].account_id]
                  /\ stored[proc[p].account_id] # NoFile]_vars

\* a switch succeeded and changed the keychain and the active file
C33_Witness ==
    \E p \in Procs :
        /\ proc[p].cmd = "switch" /\ proc[p].pc = "done" /\ proc[p].result = "ok"
        /\ keychain = stored[proc[p].account_id]
        /\ activeFile = keychain
        /\ proc[p].kc_before # keychain

\* the members of a credential other than the four that a refresh sets and
\* the layout of its bytes
KeptMembers == {"email", "isTeam", "sub", "tier", "json", "oauth"}

\* C34: the credential a successful exchange returns differs from the one
\* that was sent only in accessToken, refreshToken, expiresAt (when the
\* response carries expires_in) and scopes (when it carries scope); the new
\* refresh token is the one of the response, or the one sent when the
\* response has none; a credential without refresh token is not sent to the
\* OAuth client and the refresh is an error.
C34_RefreshFrame ==
    /\ [](\A p \in Procs :
            /\ \A k \in Indices(proc[p].calls) : proc[p].calls[k] # NoToken
            /\ proc[p].pc = "exchanging"
               => /\ proc[p].sent # NoToken
                  /\ proc[p].sent = RefreshTokenOf(proc[p].current_data))
    /\ [][\A p \in Procs :
            /\ (proc[p].pc = "exchanging" /\ proc'[p] # proc[p])
               => LET old == proc[p].current_data
                      new == proc'[p].refreshed_data
                      r == proc'[p].response
                  IN IF r.kind \in {"rotated", "same"}
                     THEN /\ \A m \in KeptMembers : new[m] = old[m]
                          /\ new.at = nextTok
                          /\ new.rt = IF r.kind = "rotated" THEN nextTok ELSE old.rt
                          /\ new.expiresAt = IF "expires_in" \in r.carried
                                             THEN nextTok ELSE old.expiresAt
                          /\ new.scopes = IF "scope" \in r.carried
                                          THEN ResponseScope ELSE old.scopes
                     ELSE /\ new = NoFile
                          /\ proc'[p].op_result \notin {"ok", "none"}
            /\ (/\ proc[p].pc = "locked" /\ proc[p].cmd = "refresh"
                /\ proc'[p] # proc[p]
                /\ RefreshTokenOf(stored[proc[p].account_id]) = NoToken)
               => /\ proc'[p].calls = proc[p].calls
                  /\ proc'[p].op_result = "error"
                  /\ proc'[p].pc = "unlock"]_vars

\* a response without refresh_token and without expires_in was applied: the
\* refresh token and the expiry are the ones sent, the scopes are new
C34_Witness ==
    \E p \in Procs :
        /\ proc[p].response.kind = "same"
        /\ proc[p].response.carried = {"scope"}
        /\ proc[p].pc \in {"unlock", "k_write", "sync_kc"}
        /\ proc[p].refreshed_data.rt = proc[p].current_data.rt
        /\ proc[p].refreshed_data.expiresAt = InitExpiry
        /\ proc[p].refreshed_data.scopes = ResponseScope
        /\ proc[p].refreshed_data.at # proc[p].current_data.at

\* the accounts of the snapshot whose updated_at is not the one loaded
Restamped(p, saved) ==
    {saved.accounts[i].id : i \in {j \in Indices(saved.accounts) :
        saved.accounts[j].updated_at # proc[p].prior_snapshot.accounts[j].updated_at}}

\* C35: the snapshot that refresh saves at its end has the profiles and the
\* accounts it loaded, in the same order, with the same ids, services and
\* labels; only updated_at differs, and only for accounts whose stored file
\* was written during the run.
C35_SavedSnapshotFrame ==
    [][\A p \in Procs :
         (/\ proc[p].cmd = "refresh" /\ proc[p].pc = "r_save"
          /\ proc'[p].pc = "done" /\ proc'[p].summary.kind # "io")
         => LET loaded == proc[p].prior_snapshot
                saved == accountsJson'
            IN /\ saved.profiles = loaded.profiles
               /\ Len(saved.accounts) = Len(loaded.accounts)
               /\ \A i \in Indices(loaded.accounts) :
                      saved.accounts[i] =
                          [loaded.accounts[i] EXCEPT
                             !.updated_at = saved.accounts[i].updated_at]
               /\ Restamped(p, saved) \subseteq proc[p].wrote]_vars

\* a refresh saved a snapshot in which one account has a new updated_at and
\* another has the one loaded
C35_Witness ==
    \E p \in Procs :
        /\ RefreshReturned(p) /\ proc[p].summary.kind \in {"ok", "failed", "need_login"}
        /\ accountsJson = proc[p].snapshot
        /\ Restamped(p, accountsJson) # {}
        /\ \E i \in Indices(accountsJson.accounts) :
               /\ accountsJson.accounts[i].service = "claude"
               /\ accountsJson.accounts[i].id \notin Restamped(p, accountsJson)

\* the fallback sources in the order of the claim: the active file when its
\* refresh token is the keychain's, else a stored file with that refresh
\* token, else the active file; NoFile is no source
FallbackInOrder(kc, file, st) ==
    LET matching == {st[id] : id \in {i \in AccountIds :
                        Exists(st[i]) /\ RefreshTokenOf(st[i]) = RefreshTokenOf(kc)}}
    IN IF /\ Exists(file) /\ RefreshTokenOf(kc) # NoToken
          /\ RefreshTokenOf(file) = RefreshTokenOf(kc)
       THEN {file}
       ELSE IF RefreshTokenOf(kc) # NoToken /\ matching # {} THEN matching
       ELSE {file}

\* C36: when the keychain entry is a JSON object, load_current returns the
\* keychain entry merged with the fallback source chosen in the order active
\* file with the keychain's refresh token, stored file with the keychain's
\* refresh token, active file; with no source, or one that is not a JSON
\* object, it returns the keychain bytes unchanged.
C36_FallbackOrder ==
    \A p \in Procs :
        (Loaded(p) /\ Exists(proc[p].kc_loaded) /\ proc[p].kc_loaded.json = "object")
        => LET kc == proc[p].kc_loaded IN
           \E fb \in FallbackInOrder(kc, activeFile, stored) :
               proc[p].active_data =
                   IF Exists(fb) /\ fb.json = "object"
                   THEN ToVecPretty(merge_claude_metadata_value(kc, fb))
                   ELSE kc

\* the refresh tokens that exchanges of the tool have consumed: the server
\* answered with a rotated token
Consumed == UNION {proc[p].consumed : p \in Procs}

\* C37: with a server that rotates the refresh token on every successful
\* exchange, no step of a command writes into a stored credential file a
\* refresh token that an earlier successful exchange has consumed.
C37_NoConsumedTokenWritten ==
    [][\A id \in AccountIds :
         (/\ stored'[id] # stored[id]
          /\ Exists(stored'[id])
          /\ RefreshTokenOf(stored'[id]) # NoToken)
         => RefreshTokenOf(stored'[id]) \notin Consumed]_vars

\* C38: when the exchange of a refresh token succeeded during a refresh,
\* every account linked by a profile whose stored file had that token, and
\* whose stored file no write failed on, ends the run with the tokens of the
\* exchange, also when applying them to the first account failed.
C38_SharersGetExchangedTokens ==
    \A p \in Procs :
        RefreshReturned(p)
        => \A lock \in DOMAIN proc[p].exchanged :
           \A a \in DOMAIN proc[p].lock_of :
               (/\ proc[p].lock_of[a] = lock
                /\ a \notin proc[p].write_failed)
               => SameTokens(stored[a], proc[p].exchanged[lock])

\* C39: every outcome that a refresh keeps in its dedupe map under a
\* fingerprint, and that an exchange produced, was produced by the exchange
\* of a refresh token with that fingerprint, also when another process
\* rewrote the stored file between the read before the locks and the read
\* under them.
C39_DedupeKeyIsExchangedFingerprint ==
    \A p \in Procs :
        proc[p].cmd = "refresh"
        => \A lock \in DOMAIN proc[p].refreshed_by_lock_id :
               (lock[1] = "fp" /\ lock \in DOMAIN proc[p].sent_for)
               => lock[2] = short_hash_hex(proc[p].sent_for[lock])

\* refresh returned after it refreshed the account it resolved as active
ActiveAccountRefreshed(p) ==
    /\ RefreshReturned(p) /\ proc[p].summary.kind # "io"
    /\ proc[p].active_account_id \in DOMAIN proc[p].refreshed_by_account_id
    /\ proc[p].refreshed_by_account_id[proc[p].active_account_id].kind = "success"

\* C40: after refresh has refreshed the account it resolved as active, the
\* reconciliation of the credential that load_current returns against the
\* saved snapshot is that same account id, also when the id of the account
\* is the hash of a refresh token.
C40_ActiveIdStableAcrossRefresh ==
    \A p \in Procs :
        ActiveAccountRefreshed(p)
        => \A d \in load_current_credentials(activeFile, keychain, stored) :
               resolve_snapshot_account_id_for_credentials(accountsJson, d, stored)
                   = proc[p].active_account_id

====
